---- MODULE Spec2Model ----
(***************************************************************************)
(* Balance mutation service of the FinBase backend                         *)
(* (public/backend/src/controllers/amount.controller.js): addMoney,        *)
(* deductMoney and getBalance as request handlers that interleave at       *)
(* their awaits, over the Account collection and the Transaction log; and  *)
(* register and login of controllers/auth.controller.js over the User and  *)
(* Account collections.                                                    *)
(***************************************************************************)
EXTENDS Integers, Sequences, FiniteSets, TLC

(***************************************************************************)
(* Bounds of the model.                                                    *)
(***************************************************************************)
\* Requests issued in one behaviour.
MaxCalls == 2
\* Largest amount a request carries.
MaxAmount == 2
\* Largest balance of an account that exists before the first request.
MaxInitBalance == 2

\* Handler invocations that can be in flight together.
Slots == {1, 2}

\* Owners of accounts, and the verified identities (req.userId, set by the
\* auth middleware) that requests arrive with.
Users == {"alice", "bob"}
UserList == <<"bob", "alice">>
Callers == {"alice"}

(***************************************************************************)
(* JavaScript values a request body can carry in `amount`, and the         *)
(* conversions the handlers apply to them.                                 *)
(***************************************************************************)
Undefined == [t |-> "undefined"]
Null == [t |-> "null"]
NaN == [t |-> "NaN"]
Num(n) == [t |-> "number", v |-> n]
Str(s) == [t |-> "string", s |-> s]

Digits == <<"0", "1", "2", "3", "4", "5", "6", "7", "8", "9">>

IsDigit(c) == \E i \in 1..10 : Digits[i] = c

DigitValue(c) == (CHOOSE i \in 1..10 : Digits[i] = c) - 1

RECURSIVE DigitsToInt(_)
DigitsToInt(s) ==
  IF s = <<>> THEN 0
  ELSE 10 * DigitsToInt(SubSeq(s, 1, Len(s) - 1)) + DigitValue(s[Len(s)])

\* Number("...") of a string: "" is 0, an optionally signed run of digits is
\* its value, anything else is NaN.
StringToNumber(s) ==
  IF s = <<>> THEN Num(0)
  ELSE LET neg == s[1] = "-"
           body == IF neg THEN Tail(s) ELSE s
       IN IF body # <<>> /\ \A i \in 1..Len(body) : IsDigit(body[i])
          THEN Num(IF neg THEN 0 - DigitsToInt(body) ELSE DigitsToInt(body))
          ELSE NaN

\* Number(x)
ToNumber(x) ==
  CASE x.t = "undefined" -> NaN
    [] x.t = "null" -> Num(0)
    [] x.t = "string" -> StringToNumber(x.s)
    [] OTHER -> x

\* !x is FALSE exactly for the truthy values.
Truthy(x) ==
  CASE x.t = "number" -> x.v # 0
    [] x.t = "string" -> x.s # <<>>
    [] OTHER -> FALSE

\* x <= 0 : both sides go through ToNumber, any comparison with NaN is false.
LessOrEqualZero(x) == ToNumber(x).t = "number" /\ ToNumber(x).v <= 0

\* a + b and a - b on numbers
JSAdd(a, b) == IF a.t = "number" /\ b.t = "number" THEN Num(a.v + b.v) ELSE NaN

JSSub(a, b) == IF a.t = "number" /\ b.t = "number" THEN Num(a.v - b.v) ELSE NaN

\* The decimal digits of a natural number.
RECURSIVE NatToString(_)
NatToString(n) ==
  IF n < 10 THEN <<Digits[n + 1]>>
  ELSE NatToString(n \div 10) \o <<Digits[(n % 10) + 1]>>

\* String(x), as a template literal applies it: the characters of the text.
JSToString(x) ==
  CASE x.t = "number" -> IF x.v < 0 THEN <<"-">> \o NatToString(0 - x.v) ELSE NatToString(x.v)
    [] x.t = "string" -> x.s
    [] x.t = "NaN" -> <<"N", "a", "N">>
    [] x.t = "null" -> <<"n", "u", "l", "l">>
    [] OTHER -> <<"u", "n", "d", "e", "f", "i", "n", "e", "d">>

\* a < b on numbers
JSLess(a, b) == a.t = "number" /\ b.t = "number" /\ a.v < b.v

StringAmounts == {<<"0">>, <<"1">>, <<"x">>}

\* What `amount` is in a request body: absent, null, a number (negative, zero, the
\* smallest and the largest positive one), or a string.
Amounts ==
  {Undefined, Null} \cup {Num(n) : n \in {0 - 1, 0, 1, MaxAmount}}
    \cup {Str(s) : s \in StringAmounts}

(***************************************************************************)
(* Persisted state and the handlers' frames.                               *)
(***************************************************************************)
VARIABLES
  accounts,   \* the Account collection, in natural (insertion) order; _id = index
  txlog,      \* the Transaction collection, in insertion order
  calls,      \* the handler invocation running in each slot
  started,    \* requests issued so far
  mutations,  \* account.save() calls of addMoney and deductMoney that resolved
  users,      \* the User collection, in natural (insertion) order
  auth,       \* the register or login invocation in flight
  page        \* the state of the Accounts or AccountsDeduct page in the browser

vars == <<accounts, txlog, calls, started, mutations, users, auth, page>>

\* `CBI${Date.now()}${Math.floor(Math.random() * 1000)}`: any of a few values,
\* two calls can draw the same one.
AccountNumbers == {"CBI1", "CBI2"}

\* A variant that opens the account with a balance of 1.
NewAccount_Funded(u, n) ==
  [id |-> 0, userId |-> u, accountNumber |-> n, accountType |-> "savings",
   balance |-> Num(1), status |-> "active"]

\* new Account({userId, accountNumber, accountType: 'savings', balance: 0,
\* status: 'active'}): a document not yet in the collection (id 0).
NewAccount(u, n) ==
  [id |-> 0, userId |-> u, accountNumber |-> n, accountType |-> "savings",
   balance |-> Num(0), status |-> "active"]

NoDoc ==
  [id |-> 0, userId |-> "none", accountNumber |-> "none", accountType |-> "none",
   balance |-> Undefined, status |-> "none"]

NoResp == [status |-> 0, message |-> <<>>, account |-> NoDoc]

\* A handler's frame. pc, kind, user, amount, doc and resp are the handler's
\* own; the rest records what happened during the invocation:
\*   entry     the collections as they were when the handler was entered
\*   read      the balance findOne returned
\*   saved     account.save() of this invocation succeeded
\*   wrote     the balance that save() left in the collection
\*   logged    Transaction.create of this invocation succeeded
\*   dbError   a database call of this invocation rejected
\*   overlap   another invocation for the same user was in flight meanwhile
\*   othersCredited, othersDebited
\*             the amounts other invocations saved to this user's account
\*             since this one was entered
IdleCall ==
  [pc |-> "idle", kind |-> "none", user |-> "none", amount |-> Undefined,
   doc |-> NoDoc, resp |-> NoResp,
   entry |-> [accounts |-> <<>>, txlog |-> <<>>], read |-> Undefined,
   saved |-> FALSE, wrote |-> Undefined, logged |-> FALSE, dbError |-> FALSE, overlap |-> FALSE,
   othersCredited |-> 0, othersDebited |-> 0]

\* A variant whose query leaves out the userId filter.
FindOne_AnyUser(accts, u) == IF Len(accts) > 0 THEN 1 ELSE 0

\* Account.findOne({ userId }): the _id of the first matching document in
\* natural order, 0 for null.
FindOne(accts, u) ==
  IF \E i \in 1..Len(accts) : accts[i].userId = u
  THEN CHOOSE i \in 1..Len(accts) :
         /\ accts[i].userId = u
         /\ \A j \in 1..(i - 1) : accts[j].userId # u
  ELSE 0

\* The document findOne hands to the handler.
Load(accts, i) ==
  [id |-> i, userId |-> accts[i].userId, accountNumber |-> accts[i].accountNumber,
   accountType |-> accts[i].accountType, balance |-> Num(accts[i].balance),
   status |-> accts[i].status]

\* The balance field is a Number path: a NaN does not cast and save() rejects.
AccountValid(doc) == doc.balance.t = "number"

\* account.save(): an insert for a new document, an update of the balance
\* (the only modified path) for a loaded one.
Stored(doc) ==
  [userId |-> doc.userId, accountNumber |-> doc.accountNumber,
   accountType |-> doc.accountType, balance |-> doc.balance.v, status |-> doc.status]

\* A variant that saves a new document over the account the user already has.
SaveAccount_Upsert(accts, doc) ==
  IF doc.id # 0 THEN [accts EXCEPT ![doc.id].balance = doc.balance.v]
  ELSE IF \E i \in 1..Len(accts) : accts[i].userId = doc.userId
       THEN [i \in 1..Len(accts) |->
               IF accts[i].userId = doc.userId
               THEN [accts[i] EXCEPT !.balance = doc.balance.v] ELSE accts[i]]
       ELSE Append(accts, Stored(doc))

\* A variant whose update writes the status as well.
SaveAccount_SetsStatus(accts, doc) ==
  IF doc.id = 0 THEN Append(accts, Stored(doc))
  ELSE [accts EXCEPT ![doc.id] = [Stored(doc) EXCEPT !.status = "updated"]]

SaveAccount(accts, doc) ==
  IF doc.id = 0 THEN Append(accts, Stored(doc))
  ELSE [accts EXCEPT ![doc.id].balance = doc.balance.v]

SavedDoc(accts, doc) == IF doc.id = 0 THEN [doc EXCEPT !.id = Len(accts) + 1] ELSE doc

\* transactionSchema: required paths, the enums and min: 0 on amount.
TransactionValid(tx) ==
  /\ tx.type \in {"credit", "debit"}
  /\ tx.amount.t = "number" /\ tx.amount.v >= 0
  /\ tx.status \in {"pending", "completed", "failed"}
  /\ tx.accountId # 0

\* What the user's balance is in the store: that of the account findOne
\* returns, Undefined when the user has none.
UserBalance(accts, u) ==
  IF FindOne(accts, u) = 0 THEN Undefined ELSE Num(accts[FindOne(accts, u)].balance)

AccountsOf(accts, u) == {i \in 1..Len(accts) : accts[i].userId = u}

Active(c) == c.pc \notin {"idle", "done"}

\* A response is on its way out: it leaves before any handler runs on.
Replying == (\E s \in Slots : calls[s].pc = "done") \/ auth.pc = "done"

\* A request is taken by the lowest free slot.
FreeSlot(r) ==
  /\ ~Replying
  /\ calls[r].pc = "idle"
  /\ \A s \in Slots : s < r => calls[s].pc # "idle"
  /\ started < MaxCalls

\* The frame of a handler entered for user u; every invocation in flight for
\* the same user is noted as overlapping with it.
Enter(r, frame) ==
  LET others == {s \in Slots \ {r} : Active(calls[s]) /\ calls[s].user = frame.user}
  IN [s \in Slots |->
        IF s = r THEN [frame EXCEPT !.overlap = Active(frame) /\ others # {}]
        ELSE IF s \in others /\ Active(frame) THEN [calls[s] EXCEPT !.overlap = TRUE]
        ELSE calls[s]]

Frame(k, u, a) ==
  [IdleCall EXCEPT !.kind = k, !.user = u, !.amount = a,
                   !.entry = [accounts |-> accounts, txlog |-> txlog]]

\* res.status(s).json({message, account}) and return
Reply(c, s, m, acct) ==
  [c EXCEPT !.pc = "done", !.resp = [status |-> s, message |-> m, account |-> acct]]

\* A variant whose catch replies 200.
ServerError_Accepted(c) == Reply([c EXCEPT !.dbError = TRUE], 200, <<>>, c.doc)

\* The catch (err) of a handler whose database call rejected.
ServerError(c) == Reply([c EXCEPT !.dbError = TRUE], 500, <<"Server error">>, NoDoc)

\* The frames once invocation r, now with frame c, has saved its account:
\* the other invocations in flight for the same user note the amount.
AfterSave(r, c) ==
  [s \in Slots |->
     IF s = r
     THEN [c EXCEPT !.saved = TRUE,
                    !.wrote = IF c.doc.id \in 1..Len(accounts')
                              THEN Num(accounts'[c.doc.id].balance) ELSE Undefined]
     ELSE IF Active(calls[s]) /\ calls[s].user = c.user
          THEN [calls[s] EXCEPT
                  !.othersCredited = @ + (IF c.kind = "addMoney" THEN ToNumber(c.amount).v ELSE 0),
                  !.othersDebited = @ + (IF c.kind = "deductMoney" THEN ToNumber(c.amount).v ELSE 0)]
          ELSE calls[s]]

(***************************************************************************)
(* Users, and the values register and login work with.                     *)
(***************************************************************************)
\* user._id of the documents of the User collection, by position.
UserIds == <<"bob", "alice", "carol", "dave", "erin", "frank">>

\* Number(process.env.INITIAL_BALANCE) || 1000
INITIAL_BALANCE == 1000

LowerCase(ch) ==
  CASE ch = "A" -> "a"
    [] ch = "B" -> "b"
    [] ch = "C" -> "c"
    [] OTHER -> ch

\* s.toLowerCase()
ToLowerCase(s) == [i \in 1..Len(s) |-> LowerCase(s[i])]

\* s.trim()
RECURSIVE Trim(_)
Trim(s) ==
  IF s = <<>> THEN s
  ELSE IF s[1] = " " THEN Trim(Tail(s))
  ELSE IF s[Len(s)] = " " THEN Trim(SubSeq(s, 1, Len(s) - 1))
  ELSE s

\* A variant that trims and keeps the case.
normalizeEmail_KeepsCase(email) ==
  IF email.t = "string" THEN Str(Trim(email.s)) ELSE email

\* A variant that lowers the case and keeps the surrounding blanks.
normalizeEmail_NoTrim(email) ==
  IF email.t = "string" THEN Str(ToLowerCase(email.s)) ELSE email

\* typeof email === 'string' ? email.trim().toLowerCase() : email
normalizeEmail(email) ==
  IF email.t = "string" THEN Str(ToLowerCase(Trim(email.s))) ELSE email

\* { $regex: `^${escapeRegExp(e)}$`, $options: 'i' } against a stored value:
\* the whole value, letter case ignored.
MatchesIgnoreCase(stored, e) == ToLowerCase(stored) = ToLowerCase(e)

\* User.findOne({ email: ... }): the position of the first match, 0 for null.
FindUserByEmail(us, e) ==
  IF \E i \in 1..Len(us) : MatchesIgnoreCase(us[i].email, e)
  THEN CHOOSE i \in 1..Len(us) :
         /\ MatchesIgnoreCase(us[i].email, e)
         /\ \A j \in 1..(i - 1) : ~MatchesIgnoreCase(us[j].email, e)
  ELSE 0

\* User.findOne({ phone })
FindUserByPhone(us, ph) ==
  IF \E i \in 1..Len(us) : us[i].phone = ph
  THEN CHOOSE i \in 1..Len(us) :
         /\ us[i].phone = ph
         /\ \A j \in 1..(i - 1) : us[j].phone # ph
  ELSE 0

\* identifier.includes('@')
Includes(s, ch) == \E i \in 1..Len(s) : s[i] = ch

\* bcrypt.hash(password, rounds) and bcrypt.compare(password, hash)
Hash(pw) == [bcrypt |-> pw]

\* A variant that accepts every password.
Compare_Always(pw, h) == TRUE

Compare(pw, h) == h = Hash(pw)

\* generateToken(user._id)
Token(id) == [sub |-> id]

NoToken == [sub |-> "none"]

NoUser ==
  [id |-> "none", name |-> <<>>, email |-> <<>>, phone |-> <<>>, password |-> Hash(<<>>)]

NoPayload ==
  [id |-> "none", name |-> <<>>, email |-> <<>>, phone |-> <<>>,
   accountNumber |-> "none", balance |-> Undefined]

NoBody ==
  [name |-> Undefined, email |-> Undefined, phone |-> Undefined,
   password |-> Undefined, identifier |-> Undefined]

\* The users who exist before the first request: the owners of the accounts.
InitialUsers ==
  << [id |-> "bob", name |-> <<"b">>, email |-> <<"b", "@">>, phone |-> <<"2">>,
      password |-> Hash(<<"p">>)],
     [id |-> "alice", name |-> <<"a">>, email |-> <<"a", "@">>, phone |-> <<"7">>,
      password |-> Hash(<<"p">>)] >>

\* The frame of register or login. pc, kind, body, email, user and resp are
\* the handler's own; entry is the collections as they were at entry,
\* savedUser and savedAccount tell which of its saves resolved, dbError that
\* a database call rejected.
IdleAuth ==
  [pc |-> "idle", kind |-> "none", body |-> NoBody, email |-> Undefined,
   user |-> NoUser,
   resp |-> [status |-> 0, message |-> <<>>, token |-> NoToken, user |-> NoPayload],
   entry |-> [users |-> <<>>, accounts |-> <<>>, txlog |-> <<>>],
   savedUser |-> FALSE, savedAccount |-> FALSE, dbError |-> FALSE]

AuthFrame(k, b) ==
  [IdleAuth EXCEPT !.kind = k, !.body = b,
                   !.entry = [users |-> users, accounts |-> accounts, txlog |-> txlog]]

\* res.status(s).json({success, message, token, user}) and return
AuthReply(c, s, m, tok, payload) ==
  [c EXCEPT !.pc = "done",
            !.resp = [status |-> s, message |-> m, token |-> tok, user |-> payload]]

\* The catch (error) of register and login.
AuthServerError(c) ==
  AuthReply([c EXCEPT !.dbError = TRUE], 500, <<"Server error">>, NoToken, NoPayload)

\* The state of a page that is not mounted. name is the page, isAddMode the
\* mode it was opened in, user the user whose token localStorage holds,
\* account and amount the page's state of these names.
NoPage ==
  [name |-> "none", isAddMode |-> FALSE, user |-> "none", account |-> NoDoc,
   amount |-> Str(<<>>)]

\* The numbers of the accounts that exist before the first request: each
\* account has its own.
InitialNumber(u) == IF u = "alice" THEN "CBI0" ELSE "CBI9"

\* Initial stores: every user who sends no request here has an account; a
\* caller has none, or one with some balance.
RECURSIVE StoreOf(_, _)
StoreOf(f, k) ==
  IF k = 0 THEN <<>>
  ELSE LET u == UserList[k]
           rest == StoreOf(f, k - 1)
       IN IF f[u] < 0 THEN rest
          ELSE Append(rest, [userId |-> u, accountNumber |-> InitialNumber(u),
                             accountType |-> "savings", balance |-> f[u],
                             status |-> "active"])

InitialStores ==
  {StoreOf(f, Len(UserList)) :
     f \in {g \in [Users -> (0 - 1)..MaxInitBalance] :
              \A u \in Users \ Callers : g[u] = MaxInitBalance}}

Init ==
  /\ accounts \in InitialStores
  /\ txlog = <<>>
  /\ calls = [s \in Slots |-> IdleCall]
  /\ started = 0
  /\ mutations = 0
  /\ users = InitialUsers
  /\ auth = IdleAuth
  /\ page = NoPage

(***************************************************************************)
(* addMoney                                                                *)
(***************************************************************************)
\* A variant with the !amount test alone.
InvalidAmount_FalsyOnly(a) == ~Truthy(a)

\* if (!amount || amount <= 0)
InvalidAmount(a) == ~Truthy(a) \/ LessOrEqualZero(a)

\* A variant that assigns the amount instead of adding it.
CreditedBalance_Assigns(doc, a) == ToNumber(a)

\* Number(account.balance) + Number(amount)
CreditedBalance(doc, a) == JSAdd(ToNumber(doc.balance), ToNumber(a))

\* A variant whose record carries the balance before the credit.
CreditTransaction_BalanceBefore(c) ==
  [userId |-> c.user, accountId |-> c.doc.id, type |-> "credit",
   amount |-> ToNumber(c.amount), description |-> "Manual add money",
   status |-> "completed", balanceAfter |-> JSSub(c.doc.balance, ToNumber(c.amount))]

\* The record handed to Transaction.create by addMoney.
CreditTransaction(c) ==
  [userId |-> c.user, accountId |-> c.doc.id, type |-> "credit",
   amount |-> ToNumber(c.amount), description |-> "Manual add money",
   status |-> "completed", balanceAfter |-> c.doc.balance]

\* A variant whose message carries the new balance.
AddedMessage_Balance(c) == JSToString(c.doc.balance) \o <<" added successfully">>

\* `${amount} added successfully`
AddedMessage(c) == JSToString(c.amount) \o <<" added successfully">>

\* The document the collection holds for a valid record.
StoredTransaction(tx) ==
  [tx EXCEPT !.amount = tx.amount.v, !.balanceAfter = tx.balanceAfter.v]

\* Entry up to the first await: the amount check, then findOne is issued.
AddMoneyStart(r, u, a) ==
  /\ FreeSlot(r)
  /\ started' = started + 1
  /\ calls' = Enter(r, IF InvalidAmount(a)
                       THEN Reply(Frame("addMoney", u, a), 400, <<"Amount must be > 0">>, NoDoc)
                       ELSE [Frame("addMoney", u, a) EXCEPT !.pc = "findOne"])
  /\ UNCHANGED <<accounts, txlog, mutations, users, auth, page>>

\* findOne resolves (or rejects); a missing account is constructed in memory
\* and the new balance is set on the document.
AddMoneyFindOne(r) ==
  /\ ~Replying
  /\ calls[r].kind = "addMoney" /\ calls[r].pc = "findOne"
  /\ \/ calls' = [calls EXCEPT ![r] = ServerError(@)]
     \/ LET i == FindOne(accounts, calls[r].user)
        IN \E n \in IF i = 0 THEN AccountNumbers ELSE {"none"} :
             LET doc == IF i = 0 THEN NewAccount(calls[r].user, n) ELSE Load(accounts, i)
             IN calls' = [calls EXCEPT ![r] =
                  [@ EXCEPT !.pc = "save",
                            !.read = IF i = 0 THEN Undefined ELSE doc.balance,
                            !.doc = [doc EXCEPT !.balance = CreditedBalance(doc, calls[r].amount)]]]
  /\ UNCHANGED <<accounts, txlog, started, mutations, users, auth, page>>

\* A variant that goes on to Transaction.create without the save.
AddMoneySave_Skipped(r) ==
  /\ ~Replying
  /\ calls[r].kind = "addMoney" /\ calls[r].pc = "save"
  /\ AccountValid(calls[r].doc) /\ calls[r].doc.id # 0
  /\ calls' = [calls EXCEPT ![r].pc = "create"]
  /\ UNCHANGED <<accounts, txlog, started, mutations, users, auth, page>>

\* A variant whose save writes the balance and rejects all the same.
AddMoneySave_WritesThenFails(r) ==
  /\ ~Replying
  /\ calls[r].kind = "addMoney" /\ calls[r].pc = "save"
  /\ AccountValid(calls[r].doc)
  /\ accounts' = SaveAccount(accounts, calls[r].doc)
  /\ calls' = [calls EXCEPT ![r] = ServerError(@)]
  /\ UNCHANGED <<txlog, started, mutations, users, auth, page>>

\* account.save() rejects (the database, or validation) or resolves.
AddMoneySave(r) ==
  /\ ~Replying
  /\ calls[r].kind = "addMoney" /\ calls[r].pc = "save"
  /\ \/ /\ calls' = [calls EXCEPT ![r] = ServerError(@)]
        /\ UNCHANGED <<accounts, mutations>>
     \/ /\ ~AccountValid(calls[r].doc)
        /\ calls' = [calls EXCEPT ![r] = Reply(@, 500, <<"Server error">>, NoDoc)]
        /\ UNCHANGED <<accounts, mutations>>
     \/ /\ AccountValid(calls[r].doc)
        /\ accounts' = SaveAccount(accounts, calls[r].doc)
        /\ calls' = AfterSave(r, [calls[r] EXCEPT !.pc = "create",
                                                  !.doc = SavedDoc(accounts, calls[r].doc)])
        /\ mutations' = mutations + 1
  /\ UNCHANGED <<txlog, started, users, auth, page>>

\* A variant that keeps the newest record only.
AddMoneyCreate_KeepsLast(r) ==
  /\ ~Replying
  /\ calls[r].kind = "addMoney" /\ calls[r].pc = "create"
  /\ txlog' = <<StoredTransaction(CreditTransaction(calls[r]))>>
  /\ calls' = [calls EXCEPT ![r] =
       Reply([@ EXCEPT !.logged = TRUE], 200, AddedMessage(calls[r]), calls[r].doc)]
  /\ UNCHANGED <<accounts, started, mutations, users, auth, page>>

\* A variant whose inner catch passes the rejection on: the balance is put
\* back and the reply is the 500.
AddMoneyCreate_Surfaces(r) ==
  /\ ~Replying
  /\ calls[r].kind = "addMoney" /\ calls[r].pc = "create"
  /\ accounts' = [accounts EXCEPT ![calls[r].doc.id].balance =
                    @ - ToNumber(calls[r].amount).v]
  /\ calls' = [calls EXCEPT ![r] = Reply(@, 500, <<"Server error">>, NoDoc)]
  /\ UNCHANGED <<txlog, started, mutations, users, auth, page>>

\* Transaction.create resolves, or rejects into the inner catch; then the 200.
AddMoneyCreate(r) ==
  /\ ~Replying
  /\ calls[r].kind = "addMoney" /\ calls[r].pc = "create"
  /\ LET tx == CreditTransaction(calls[r])
     IN \/ /\ TransactionValid(tx)
           /\ txlog' = Append(txlog, StoredTransaction(tx))
           /\ calls' = [calls EXCEPT ![r] =
                Reply([@ EXCEPT !.logged = TRUE], 200, AddedMessage(calls[r]), calls[r].doc)]
        \/ /\ UNCHANGED txlog
           /\ calls' = [calls EXCEPT ![r] = Reply(@, 200, AddedMessage(calls[r]), calls[r].doc)]
  /\ UNCHANGED <<accounts, started, mutations, users, auth, page>>

(***************************************************************************)
(* deductMoney                                                             *)
(***************************************************************************)
\* A variant with <= in place of <.
InsufficientBalance_OrEqual(doc, a) ==
  ToNumber(doc.balance).t = "number" /\ ToNumber(a).t = "number"
    /\ ToNumber(doc.balance).v <= ToNumber(a).v

\* A variant without the sufficiency check.
InsufficientBalance_Never(doc, a) == FALSE

\* A variant with the operands swapped.
InsufficientBalance_Swapped(doc, a) == JSLess(ToNumber(a), ToNumber(doc.balance))

\* Number(account.balance) < Number(amount)
InsufficientBalance(doc, a) == JSLess(ToNumber(doc.balance), ToNumber(a))

\* Number(account.balance) - Number(amount)
DebitedBalance(doc, a) == JSSub(ToNumber(doc.balance), ToNumber(a))

\* A variant whose record is typed as a credit.
DebitTransaction_AsCredit(c) ==
  [userId |-> c.user, accountId |-> c.doc.id, type |-> "credit",
   amount |-> ToNumber(c.amount), description |-> "Manual deduct money",
   status |-> "completed", balanceAfter |-> c.doc.balance]

\* The record handed to Transaction.create by deductMoney.
DebitTransaction(c) ==
  [userId |-> c.user, accountId |-> c.doc.id, type |-> "debit",
   amount |-> ToNumber(c.amount), description |-> "Manual deduct money",
   status |-> "completed", balanceAfter |-> c.doc.balance]

\* `${amount} deducted successfully`
DeductedMessage(c) == JSToString(c.amount) \o <<" deducted successfully">>

DeductMoneyStart(r, u, a) ==
  /\ FreeSlot(r)
  /\ started' = started + 1
  /\ calls' = Enter(r, IF InvalidAmount(a)
                       THEN Reply(Frame("deductMoney", u, a), 400, <<"Amount must be > 0">>, NoDoc)
                       ELSE [Frame("deductMoney", u, a) EXCEPT !.pc = "findOne"])
  /\ UNCHANGED <<accounts, txlog, mutations, users, auth, page>>

\* A variant whose handler ends without a response when there is no account.
DeductMoneyFindOne_Silent(r) ==
  /\ ~Replying
  /\ calls[r].kind = "deductMoney" /\ calls[r].pc = "findOne"
  /\ FindOne(accounts, calls[r].user) = 0
  /\ calls' = [calls EXCEPT ![r] = IdleCall]
  /\ UNCHANGED <<accounts, txlog, started, mutations, users, auth, page>>

\* findOne resolves (or rejects); then the existence and sufficiency checks,
\* and the new balance is set on the document.
DeductMoneyFindOne(r) ==
  /\ ~Replying
  /\ calls[r].kind = "deductMoney" /\ calls[r].pc = "findOne"
  /\ \/ calls' = [calls EXCEPT ![r] = ServerError(@)]
     \/ LET i == FindOne(accounts, calls[r].user)
        IN calls' = [calls EXCEPT ![r] =
             IF i = 0 THEN Reply(@, 404, <<"No account found">>, NoDoc)
             ELSE LET doc == Load(accounts, i)
                      c == [@ EXCEPT !.read = doc.balance, !.doc = doc]
                  IN IF InsufficientBalance(doc, calls[r].amount)
                     THEN Reply(c, 400, <<"Insufficient balance">>, NoDoc)
                     ELSE [c EXCEPT !.pc = "save",
                                    !.doc.balance = DebitedBalance(doc, calls[r].amount)]]
  /\ UNCHANGED <<accounts, txlog, started, mutations, users, auth, page>>

\* A variant that subtracts the amount from the balance stored at the time of
\* the write instead of storing the balance computed from the read.
DeductMoneySave_Decrement(r) ==
  /\ ~Replying
  /\ calls[r].kind = "deductMoney" /\ calls[r].pc = "save"
  /\ AccountValid(calls[r].doc)
  /\ accounts' = [accounts EXCEPT ![calls[r].doc.id].balance = @ - ToNumber(calls[r].amount).v]
  /\ calls' = AfterSave(r, [calls[r] EXCEPT !.pc = "create"])
  /\ mutations' = mutations + 1
  /\ UNCHANGED <<txlog, started, users, auth, page>>

DeductMoneySave(r) ==
  /\ ~Replying
  /\ calls[r].kind = "deductMoney" /\ calls[r].pc = "save"
  /\ \/ /\ calls' = [calls EXCEPT ![r] = ServerError(@)]
        /\ UNCHANGED <<accounts, mutations>>
     \/ /\ ~AccountValid(calls[r].doc)
        /\ calls' = [calls EXCEPT ![r] = Reply(@, 500, <<"Server error">>, NoDoc)]
        /\ UNCHANGED <<accounts, mutations>>
     \/ /\ AccountValid(calls[r].doc)
        /\ accounts' = SaveAccount(accounts, calls[r].doc)
        /\ calls' = AfterSave(r, [calls[r] EXCEPT !.pc = "create"])
        /\ mutations' = mutations + 1
  /\ UNCHANGED <<txlog, started, users, auth, page>>

\* A variant that creates the record twice.
DeductMoneyCreate_Twice(r) ==
  /\ ~Replying
  /\ calls[r].kind = "deductMoney" /\ calls[r].pc = "create"
  /\ LET tx == StoredTransaction(DebitTransaction(calls[r]))
     IN txlog' = Append(Append(txlog, tx), tx)
  /\ calls' = [calls EXCEPT ![r] =
       Reply([@ EXCEPT !.logged = TRUE], 200, DeductedMessage(calls[r]), calls[r].doc)]
  /\ UNCHANGED <<accounts, started, mutations, users, auth, page>>

\* Transaction.create resolves, or rejects into the inner catch; then the 200.
DeductMoneyCreate(r) ==
  /\ ~Replying
  /\ calls[r].kind = "deductMoney" /\ calls[r].pc = "create"
  /\ LET tx == DebitTransaction(calls[r])
     IN \/ /\ TransactionValid(tx)
           /\ txlog' = Append(txlog, StoredTransaction(tx))
           /\ calls' = [calls EXCEPT ![r] =
                Reply([@ EXCEPT !.logged = TRUE], 200, DeductedMessage(calls[r]), calls[r].doc)]
        \/ /\ UNCHANGED txlog
           /\ calls' = [calls EXCEPT ![r] = Reply(@, 200, DeductedMessage(calls[r]), calls[r].doc)]
  /\ UNCHANGED <<accounts, started, mutations, users, auth, page>>

(***************************************************************************)
(* getBalance                                                              *)
(***************************************************************************)
GetBalanceStart(r, u) ==
  /\ FreeSlot(r)
  /\ started' = started + 1
  /\ calls' = Enter(r, [Frame("getBalance", u, Undefined) EXCEPT !.pc = "findOne"])
  /\ UNCHANGED <<accounts, txlog, mutations, users, auth, page>>

\* A variant that constructs a default account whatever findOne returned.
GetBalanceFindOne_AlwaysCreates(r) ==
  /\ ~Replying
  /\ calls[r].kind = "getBalance" /\ calls[r].pc = "findOne"
  /\ \E n \in AccountNumbers :
       calls' = [calls EXCEPT ![r] =
                   [@ EXCEPT !.pc = "save", !.doc = NewAccount(calls[r].user, n)]]
  /\ UNCHANGED <<accounts, txlog, started, mutations, users, auth, page>>

\* findOne resolves (or rejects): the account is returned, or a default one
\* is constructed and its save issued.
GetBalanceFindOne(r) ==
  /\ ~Replying
  /\ calls[r].kind = "getBalance" /\ calls[r].pc = "findOne"
  /\ \/ calls' = [calls EXCEPT ![r] = ServerError(@)]
     \/ LET i == FindOne(accounts, calls[r].user)
        IN \E n \in IF i = 0 THEN AccountNumbers ELSE {"none"} :
             calls' = [calls EXCEPT ![r] =
               IF i = 0 THEN [@ EXCEPT !.pc = "save", !.doc = NewAccount(calls[r].user, n)]
               ELSE Reply([@ EXCEPT !.read = Load(accounts, i).balance, !.doc = Load(accounts, i)],
                          200, <<>>, Load(accounts, i))]
  /\ UNCHANGED <<accounts, txlog, started, mutations, users, auth, page>>

GetBalanceSave(r) ==
  /\ ~Replying
  /\ calls[r].kind = "getBalance" /\ calls[r].pc = "save"
  /\ \/ /\ calls' = [calls EXCEPT ![r] = ServerError(@)]
        /\ UNCHANGED accounts
     \/ /\ AccountValid(calls[r].doc)
        /\ accounts' = SaveAccount(accounts, calls[r].doc)
        /\ calls' = AfterSave(r, Reply([calls[r] EXCEPT !.doc = SavedDoc(accounts, calls[r].doc)],
                                       200, <<>>, SavedDoc(accounts, calls[r].doc)))
  /\ UNCHANGED <<txlog, started, mutations, users, auth, page>>

\* The response has gone out and the handler's frame is gone; the frames
\* still in flight stay in the order they were entered in.
Forget(r) ==
  /\ calls[r].pc = "done"
  /\ calls' = [s \in Slots |->
                 IF s < r THEN calls[s]
                 ELSE IF s + 1 \in Slots THEN calls[s + 1] ELSE IdleCall]
  /\ UNCHANGED <<accounts, txlog, started, mutations, users, auth, page>>

Next ==
  \/ \E r \in Slots, u \in Callers, a \in Amounts : AddMoneyStart(r, u, a)
  \/ \E r \in Slots : AddMoneyFindOne(r)
  \/ \E r \in Slots : AddMoneySave(r)
  \/ \E r \in Slots : AddMoneyCreate(r)
  \/ \E r \in Slots, u \in Callers, a \in Amounts : DeductMoneyStart(r, u, a)
  \/ \E r \in Slots : DeductMoneyFindOne(r)
  \/ \E r \in Slots : DeductMoneySave(r)
  \/ \E r \in Slots : DeductMoneyCreate(r)
  \/ \E r \in Slots, u \in Callers : GetBalanceStart(r, u)
  \/ \E r \in Slots : GetBalanceFindOne(r)
  \/ \E r \in Slots : GetBalanceSave(r)
  \/ \E r \in Slots : Forget(r)

Spec == Init /\ [][Next]_vars

(***************************************************************************)
(* Requests as the pages send them: { amount, accountNumber }, from either *)
(* user.                                                                   *)
(***************************************************************************)
\* A sample of amounts: a missing one, the smallest and the largest.
SomeAmounts == {Undefined, Num(1), Num(MaxAmount)}

\* The accountNumber of a request body: none, the caller's own, another
\* user's.
BodyNumbers == {"none", "CBI0", "CBI9"}

\* The amount of a request body: missing, or 1.
BodyAmounts == {Undefined, Num(1)}

Bodies == [amount : BodyAmounts, accountNumber : BodyNumbers]

\* The owner of the account with number n, "none" if there is none.
OwnerOf(accts, n) ==
  IF \E i \in 1..Len(accts) : accts[i].accountNumber = n
  THEN accts[CHOOSE i \in 1..Len(accts) : accts[i].accountNumber = n].userId
  ELSE "none"

\* A variant that credits the account the body names.
AddMoneyRequest_ByNumber(r, u, body) ==
  AddMoneyStart(r, IF OwnerOf(accounts, body.accountNumber) = "none" THEN u
                   ELSE OwnerOf(accounts, body.accountNumber), body.amount)

\* const { amount } = req.body; const userId = req.userId
AddMoneyRequest(r, u, body) == AddMoneyStart(r, u, body.amount)

DeductMoneyRequest(r, u, body) == DeductMoneyStart(r, u, body.amount)

BodyNext ==
  \/ \E r \in Slots, u \in Users, b \in Bodies : AddMoneyRequest(r, u, b)
  \/ \E r \in Slots, u \in Users, b \in Bodies : DeductMoneyRequest(r, u, b)
  \/ \E r \in Slots, u \in Users : GetBalanceStart(r, u)
  \/ \E r \in Slots :
       \/ AddMoneyFindOne(r) \/ AddMoneySave(r) \/ AddMoneyCreate(r)
       \/ DeductMoneyFindOne(r) \/ DeductMoneySave(r) \/ DeductMoneyCreate(r)
       \/ GetBalanceFindOne(r) \/ GetBalanceSave(r)
       \/ Forget(r)

BodySpec == Init /\ [][BodyNext]_vars

\* A step of a handler that has been entered: a database call it awaits
\* returns or throws and the handler runs on to its next await or to its
\* response, or its response leaves.
Step ==
  \E r \in Slots :
    \/ AddMoneyFindOne(r) \/ AddMoneySave(r) \/ AddMoneyCreate(r)
    \/ DeductMoneyFindOne(r) \/ DeductMoneySave(r) \/ DeductMoneyCreate(r)
    \/ GetBalanceFindOne(r) \/ GetBalanceSave(r)
    \/ Forget(r)

\* The handlers when every awaited database call comes back and the event
\* loop runs the continuation.
\* Amounts that take the handlers down each of their paths: a missing one,
\* the smallest and the largest, and one that is no number.
PathAmounts == {Undefined, Num(1), Num(MaxAmount), Str(<<"x">>)}

FairNext ==
  \/ \E r \in Slots, u \in Callers, a \in PathAmounts : AddMoneyStart(r, u, a)
  \/ \E r \in Slots, u \in Callers, a \in PathAmounts : DeductMoneyStart(r, u, a)
  \/ \E r \in Slots, u \in Callers : GetBalanceStart(r, u)
  \/ Step

FairSpec == Init /\ [][FairNext]_vars /\ WF_vars(Step)

(***************************************************************************)
(* register                                                                *)
(***************************************************************************)
\* Request bodies of register: complete ones, and ones with a field missing.
RegisterEmails == {Str(<<"A", "@">>), Str(<<" ", "c", "@">>), Str(<<"C", "@">>)}

RegisterBodies ==
  LET full(e) == [NoBody EXCEPT !.name = Str(<<"c">>), !.email = e,
                                !.phone = Str(<<"9">>), !.password = Str(<<"p">>)]
      one == full(Str(<<"C", "@">>))
  IN {full(e) : e \in RegisterEmails}
       \cup {[one EXCEPT !.name = Undefined], [one EXCEPT !.email = Str(<<>>)],
             [one EXCEPT !.password = Undefined]}

\* new User({name, email: normalizedEmail, phone, password: hashedPassword, ...})
NewUser(b, e) ==
  [id |-> "none", name |-> b.name.s, email |-> e.s, phone |-> b.phone.s,
   password |-> Hash(b.password.s)]

\* A variant whose account starts empty.
RegisteredAccount_Empty(u, n) ==
  [id |-> 0, userId |-> u, accountNumber |-> n, accountType |-> "savings",
   balance |-> Num(0), status |-> "active"]

\* new Account({userId: user._id, accountNumber, accountType: 'savings',
\* balance: INITIAL_BALANCE, status: 'active'})
RegisteredAccount(u, n) ==
  [id |-> 0, userId |-> u, accountNumber |-> n, accountType |-> "savings",
   balance |-> Num(INITIAL_BALANCE), status |-> "active"]

\* userPayload of register
RegisterPayload(u, doc) ==
  [id |-> u.id, name |-> u.name, email |-> u.email, phone |-> u.phone,
   accountNumber |-> doc.accountNumber, balance |-> doc.balance]

\* Entry up to the first await: the required fields, then the e-mail lookup.
RegisterStart(b) ==
  /\ ~Replying /\ auth.pc = "idle" /\ started < MaxCalls
  /\ started' = started + 1
  /\ auth' = IF ~Truthy(b.name) \/ ~Truthy(b.email) \/ ~Truthy(b.password)
             THEN AuthReply(AuthFrame("register", b), 400,
                            <<"Missing required fields: name, email and password are required.">>,
                            NoToken, NoPayload)
             ELSE [AuthFrame("register", b) EXCEPT !.pc = "findOne",
                                                   !.email = normalizeEmail(b.email)]
  /\ UNCHANGED <<accounts, txlog, calls, mutations, users, page>>

\* User.findOne resolves (or rejects): 409 for a user found, else the password
\* is hashed and the user document constructed.
RegisterFindOne ==
  /\ ~Replying
  /\ auth.kind = "register" /\ auth.pc = "findOne"
  /\ \/ auth' = AuthServerError(auth)
     \/ auth' = IF FindUserByEmail(users, auth.email.s) # 0
                THEN AuthReply(auth, 409, <<"Email already registered">>, NoToken, NoPayload)
                ELSE [auth EXCEPT !.pc = "saveUser", !.user = NewUser(auth.body, auth.email)]
  /\ UNCHANGED <<accounts, txlog, calls, started, mutations, users, page>>

\* user.save() rejects or resolves.
RegisterSaveUser ==
  /\ ~Replying
  /\ auth.kind = "register" /\ auth.pc = "saveUser"
  /\ \/ /\ auth' = AuthServerError(auth)
        /\ UNCHANGED users
     \/ LET u == [auth.user EXCEPT !.id = UserIds[Len(users) + 1]]
        IN /\ users' = Append(users, u)
           /\ auth' = [auth EXCEPT !.pc = "saveAccount", !.user = u, !.savedUser = TRUE]
  /\ UNCHANGED <<accounts, txlog, calls, started, mutations, page>>

\* account.save() rejects or resolves; then the token and the 201.
RegisterSaveAccount ==
  /\ ~Replying
  /\ auth.kind = "register" /\ auth.pc = "saveAccount"
  /\ \/ /\ auth' = AuthServerError(auth)
        /\ UNCHANGED accounts
     \/ \E n \in AccountNumbers :
          LET doc == RegisteredAccount(auth.user.id, n)
          IN /\ accounts' = SaveAccount(accounts, doc)
             /\ auth' = AuthReply([auth EXCEPT !.savedAccount = TRUE], 201,
                                  <<"User registered successfully">>,
                                  Token(auth.user.id), RegisterPayload(auth.user, doc))
  /\ UNCHANGED <<txlog, calls, started, mutations, users, page>>

(***************************************************************************)
(* login                                                                   *)
(***************************************************************************)
\* Request bodies of login.
LoginBodies ==
  LET with(i, e, ph, pw) ==
        [NoBody EXCEPT !.identifier = i, !.email = e, !.phone = ph, !.password = pw]
      p == Str(<<"p">>)
  IN {with(Str(<<"A", "@">>), Undefined, Undefined, Undefined),
      with(Undefined, Undefined, Undefined, p),
      with(Str(<<"A", "@">>), Undefined, Undefined, p),
      with(Str(<<"A", "@">>), Undefined, Undefined, Str(<<"q">>)),
      with(Str(<<"7">>), Undefined, Undefined, p),
      with(Undefined, Str(<<" ", "c", "@">>), Undefined, p),
      with(Undefined, Undefined, Str(<<"9">>), p)}

\* The user the lookups of login end with: by identifier (as an e-mail when
\* it holds an '@', then as a phone), else by email, else by phone.
LoginLookup(us, b) ==
  IF Truthy(b.identifier)
  THEN LET byEmail == IF Includes(b.identifier.s, "@")
                      THEN FindUserByEmail(us, normalizeEmail(b.identifier).s)
                      ELSE 0
       IN IF byEmail # 0 THEN byEmail ELSE FindUserByPhone(us, b.identifier.s)
  ELSE IF Truthy(b.email) THEN FindUserByEmail(us, normalizeEmail(b.email).s)
  ELSE FindUserByPhone(us, b.phone.s)

\* userPayload of login
LoginPayload(u, accts) ==
  LET i == FindOne(accts, u.id)
  IN [id |-> u.id, name |-> u.name, email |-> u.email, phone |-> u.phone,
      accountNumber |-> IF i = 0 THEN "null" ELSE accts[i].accountNumber,
      balance |-> IF i = 0 THEN Num(0) ELSE Num(accts[i].balance)]

\* Entry up to the first await: the password and the identifier are looked at.
LoginStart(b) ==
  /\ ~Replying /\ auth.pc = "idle" /\ started < MaxCalls
  /\ started' = started + 1
  /\ auth' = IF ~Truthy(b.password)
             THEN AuthReply(AuthFrame("login", b), 400, <<"Password is required.">>,
                            NoToken, NoPayload)
             ELSE IF ~Truthy(b.identifier) /\ ~Truthy(b.email) /\ ~Truthy(b.phone)
             THEN AuthReply(AuthFrame("login", b), 400,
                            <<"Please provide email/phone (identifier) and password.">>,
                            NoToken, NoPayload)
             ELSE [AuthFrame("login", b) EXCEPT !.pc = "findUser"]
  /\ UNCHANGED <<accounts, txlog, calls, mutations, users, page>>

\* The user lookups resolve (or reject), then bcrypt.compare.
LoginFindUser ==
  /\ ~Replying
  /\ auth.kind = "login" /\ auth.pc = "findUser"
  /\ \/ auth' = AuthServerError(auth)
     \/ LET i == LoginLookup(users, auth.body)
        IN auth' = IF i = 0
                   THEN AuthReply(auth, 400, <<"User not found">>, NoToken, NoPayload)
                   ELSE IF ~Compare(auth.body.password.s, users[i].password)
                   THEN AuthReply(auth, 401, <<"Invalid credentials">>, NoToken, NoPayload)
                   ELSE [auth EXCEPT !.pc = "findAccount", !.user = users[i]]
  /\ UNCHANGED <<accounts, txlog, calls, started, mutations, users, page>>

\* Account.findOne resolves (or rejects); then the token and the 200.
LoginFindAccount ==
  /\ ~Replying
  /\ auth.kind = "login" /\ auth.pc = "findAccount"
  /\ \/ auth' = AuthServerError(auth)
     \/ auth' = AuthReply(auth, 200, <<"Login successful">>, Token(auth.user.id),
                          LoginPayload(auth.user, accounts))
  /\ UNCHANGED <<accounts, txlog, calls, started, mutations, users, page>>

\* The response of register or login has gone out.
AuthForget ==
  /\ auth.pc = "done"
  /\ auth' = IdleAuth
  /\ UNCHANGED <<accounts, txlog, calls, started, mutations, users, page>>

\* The balance mutation handlers together with register and login.
NextAll ==
  \/ \E r \in Slots, u \in Callers, a \in SomeAmounts : AddMoneyStart(r, u, a)
  \/ \E r \in Slots : AddMoneyFindOne(r)
  \/ \E r \in Slots : AddMoneySave(r)
  \/ \E r \in Slots : AddMoneyCreate(r)
  \/ \E r \in Slots, u \in Callers, a \in SomeAmounts : DeductMoneyStart(r, u, a)
  \/ \E r \in Slots : DeductMoneyFindOne(r)
  \/ \E r \in Slots : DeductMoneySave(r)
  \/ \E r \in Slots : DeductMoneyCreate(r)
  \/ \E r \in Slots, u \in Callers : GetBalanceStart(r, u)
  \/ \E r \in Slots : GetBalanceFindOne(r)
  \/ \E r \in Slots : GetBalanceSave(r)
  \/ \E r \in Slots : Forget(r)
  \/ \E b \in RegisterBodies : RegisterStart(b)
  \/ RegisterFindOne
  \/ RegisterSaveUser
  \/ RegisterSaveAccount
  \/ \E b \in LoginBodies : LoginStart(b)
  \/ LoginFindUser
  \/ LoginFindAccount
  \/ AuthForget

SpecAll == Init /\ [][NextAll]_vars

(***************************************************************************)
(* A registration and the requests sent with the token of its response     *)
(***************************************************************************)
\* The 201 of register has arrived: the client keeps its token and sends
\* POST /amount/deduct with it, so that req.userId is the registered user.
DeductMoneyWithToken(r, a) ==
  /\ auth.pc = "done" /\ auth.kind = "register" /\ auth.resp.status = 201
  /\ \A s \in Slots : calls[s].pc # "done"
  /\ calls[r].pc = "idle"
  /\ \A s \in Slots : s < r => calls[s].pc # "idle"
  /\ started < MaxCalls
  /\ started' = started + 1
  /\ auth' = IdleAuth
  /\ LET u == auth.resp.token.sub
     IN calls' = Enter(r, IF InvalidAmount(a)
                          THEN Reply(Frame("deductMoney", u, a), 400,
                                     <<"Amount must be > 0">>, NoDoc)
                          ELSE [Frame("deductMoney", u, a) EXCEPT !.pc = "findOne"])
  /\ UNCHANGED <<accounts, txlog, mutations, users, page>>

RegisteredNext ==
  \/ \E b \in RegisterBodies : RegisterStart(b)
  \/ RegisterFindOne
  \/ RegisterSaveUser
  \/ RegisterSaveAccount
  \/ AuthForget
  \/ \E r \in Slots, a \in SomeAmounts : DeductMoneyWithToken(r, a)
  \/ \E r \in Slots : DeductMoneyFindOne(r)
  \/ \E r \in Slots : DeductMoneySave(r)
  \/ \E r \in Slots : DeductMoneyCreate(r)
  \/ \E r \in Slots : Forget(r)

RegisteredSpec == Init /\ [][RegisteredNext]_vars

(***************************************************************************)
(* The Accounts and AccountsDeduct pages (src/pages/Accounts.tsx,          *)
(* src/pages/AccountsDeduct.tsx)                                           *)
(***************************************************************************)
\* What the user types into the amount field.
Typed == {<<>>, <<"x">>, <<"-", "1">>, <<"0">>, <<"1">>, NatToString(MaxAmount)}

\* e.target.value of <input type="number">: the text when it is a number,
\* else the empty string.
InputValue(typed) ==
  IF typed # <<>> /\ StringToNumber(typed).t = "number" THEN typed ELSE <<>>

\* The page is mounted with a token in localStorage: fetchAccount sends
\* GET /amount/balance.
PageMount(r, name, mode, u) ==
  /\ page.name = "none"
  /\ FreeSlot(r)
  /\ started' = started + 1
  /\ page' = [NoPage EXCEPT !.name = name, !.isAddMode = mode, !.user = u]
  /\ calls' = Enter(r, [Frame("getBalance", u, Undefined) EXCEPT !.pc = "findOne"])
  /\ UNCHANGED <<accounts, txlog, mutations, users, auth>>

\* The continuation of fetchAccount: getBalance has answered. A response
\* that is not ok throws in handleResponse and leaves the state alone.
fetchAccount(r) ==
  /\ page.name # "none"
  /\ calls[r].pc = "done" /\ calls[r].kind = "getBalance"
  /\ calls' = [s \in Slots |->
                 IF s < r THEN calls[s]
                 ELSE IF s + 1 \in Slots THEN calls[s + 1] ELSE IdleCall]
  /\ page' = IF calls[r].resp.status \in 200..299
                  /\ calls[r].resp.account.accountNumber # "none"
             THEN [page EXCEPT !.account = calls[r].resp.account]
             ELSE page
  /\ UNCHANGED <<accounts, txlog, started, mutations, users, auth>>

\* onChange of the amount field: setAmount(val === "" ? "" : Number(val))
onChange(typed) ==
  /\ page.name # "none"
  /\ LET val == InputValue(typed)
     IN page' = [page EXCEPT !.amount = IF val = <<>> THEN Str(<<>>) ELSE StringToNumber(val)]
  /\ UNCHANGED <<accounts, txlog, calls, started, mutations, users, auth>>

\* loading: a request of handleSubmit or handleDeduct is awaited and the
\* button is disabled.
Loading ==
  \E s \in Slots : calls[s].pc # "idle" /\ calls[s].kind \in {"addMoney", "deductMoney"}

\* A variant with the amount check alone.
MaySend_AmountOnly(p) == ~(p.amount = Str(<<>>) \/ LessOrEqualZero(p.amount))

\* Neither of the two early returns of handleSubmit and handleDeduct is
\* taken: if (amount === "" || Number(amount) <= 0) return; if (!account) return
MaySend(p) ==
  /\ ~(p.amount = Str(<<>>) \/ LessOrEqualZero(p.amount))
  /\ p.account # NoDoc

\* { amount: Number(amount), accountNumber: account.accountNumber }
Payload(p) == [amount |-> ToNumber(p.amount), accountNumber |-> p.account.accountNumber]

\* Accounts.handleSubmit up to its await: addMoney or deductMoney is sent.
handleSubmit(r) ==
  /\ page.name = "Accounts" /\ ~Loading
  /\ MaySend(page)
  /\ IF page.isAddMode
     THEN AddMoneyRequest(r, page.user, Payload(page))
     ELSE DeductMoneyRequest(r, page.user, Payload(page))

\* AccountsDeduct.handleDeduct up to its await: deductMoney is sent.
handleDeduct(r) ==
  /\ page.name = "AccountsDeduct" /\ ~Loading
  /\ MaySend(page)
  /\ DeductMoneyRequest(r, page.user, Payload(page))

\* The continuation of handleSubmit and handleDeduct: the request has been
\* answered; an ok response with an account replaces the page's account and
\* clears the amount.
handleResult(r) ==
  /\ page.name # "none"
  /\ calls[r].pc = "done" /\ calls[r].kind \in {"addMoney", "deductMoney"}
  /\ calls' = [s \in Slots |->
                 IF s < r THEN calls[s]
                 ELSE IF s + 1 \in Slots THEN calls[s + 1] ELSE IdleCall]
  /\ page' = IF calls[r].resp.status \in 200..299
                  /\ calls[r].resp.account.accountNumber # "none"
             THEN [page EXCEPT !.account = calls[r].resp.account, !.amount = Str(<<>>)]
             ELSE page
  /\ UNCHANGED <<accounts, txlog, started, mutations, users, auth>>

\* One page of one signed-in user, and the handlers its requests run.
PageNext ==
  \/ \E r \in Slots, u \in Callers, mode \in BOOLEAN : PageMount(r, "Accounts", mode, u)
  \/ \E r \in Slots, u \in Callers : PageMount(r, "AccountsDeduct", FALSE, u)
  \/ \E r \in Slots : fetchAccount(r)
  \/ \E typed \in Typed : onChange(typed)
  \/ \E r \in Slots : handleSubmit(r)
  \/ \E r \in Slots : handleDeduct(r)
  \/ \E r \in Slots : handleResult(r)
  \/ \E r \in Slots : AddMoneyFindOne(r)
  \/ \E r \in Slots : AddMoneySave(r)
  \/ \E r \in Slots : AddMoneyCreate(r)
  \/ \E r \in Slots : DeductMoneyFindOne(r)
  \/ \E r \in Slots : DeductMoneySave(r)
  \/ \E r \in Slots : DeductMoneyCreate(r)
  \/ \E r \in Slots : GetBalanceFindOne(r)
  \/ \E r \in Slots : GetBalanceSave(r)

PageSpec == Init /\ [][PageNext]_vars

(***************************************************************************)
(* Properties                                                              *)
(***************************************************************************)
Done(c) == c.pc = "done"

\* The amount converts to a number greater than 0.
PositiveNumeric(a) == ToNumber(a).t = "number" /\ ToNumber(a).v > 0

\* The amount is absent, or converts to zero or to a negative number.
MissingZeroOrNegative(a) ==
  a.t = "undefined" \/ (ToNumber(a).t = "number" /\ ToNumber(a).v <= 0)

\* The user's balance when the handler was entered.
EntryBalance(c) == UserBalance(c.entry.accounts, c.user)

\* Nothing of the store differs from what it was at entry.
StoreAsAtEntry(c) == accounts = c.entry.accounts /\ txlog = c.entry.txlog

\* C1: an addMoney with a positive numeric amount that overlapped with no
\* other invocation for the user, and none of whose database calls rejected,
\* replies 200 and leaves the user's balance at its value at entry plus the
\* amount.
C1_CreditAddsAmount ==
  \A r \in Slots :
    LET c == calls[r]
    IN (/\ Done(c) /\ c.kind = "addMoney"
        /\ PositiveNumeric(c.amount)
        /\ EntryBalance(c).t = "number"
        /\ ~c.overlap /\ ~c.dbError)
       => /\ c.resp.status = 200
          /\ UserBalance(accounts, c.user)
               = Num(EntryBalance(c).v + ToNumber(c.amount).v)

C1_Witness ==
  \E r \in Slots :
    LET c == calls[r]
    IN /\ Done(c) /\ c.kind = "addMoney" /\ c.resp.status = 200
       /\ ~c.overlap /\ ~c.dbError
       /\ EntryBalance(c) = Num(1) /\ c.amount = Num(1)
       /\ UserBalance(accounts, c.user) = Num(2)

\* C2: a deductMoney with a positive numeric amount not above the balance at
\* entry (equal to it included) that overlapped with no other invocation, and
\* none of whose database calls rejected, replies 200 and leaves the balance
\* at its value at entry minus the amount.
C2_DebitSubtractsAmount ==
  \A r \in Slots :
    LET c == calls[r]
    IN (/\ Done(c) /\ c.kind = "deductMoney"
        /\ PositiveNumeric(c.amount)
        /\ EntryBalance(c).t = "number"
        /\ ToNumber(c.amount).v <= EntryBalance(c).v
        /\ ~c.overlap /\ ~c.dbError)
       => /\ c.resp.status = 200
          /\ UserBalance(accounts, c.user)
               = Num(EntryBalance(c).v - ToNumber(c.amount).v)

C2_Witness ==
  \E r \in Slots :
    LET c == calls[r]
    IN /\ Done(c) /\ c.kind = "deductMoney" /\ c.resp.status = 200
       /\ ~c.overlap /\ ~c.dbError
       /\ EntryBalance(c) = Num(1) /\ c.amount = Num(1)
       /\ UserBalance(accounts, c.user) = Num(0)

\* C3: a deductMoney whose amount is a number above the balance it read ends
\* at once with 400 <<"Insufficient balance">>, having saved no account and
\* appended no transaction; when nothing overlapped it, the store is as it
\* was at entry.
C3_InsufficientRejected ==
  \A r \in Slots :
    LET c == calls[r]
    IN (/\ c.kind = "deductMoney"
        /\ c.read.t = "number" /\ ToNumber(c.amount).t = "number"
        /\ c.read.v < ToNumber(c.amount).v)
       => /\ Done(c)
          /\ c.resp.status = 400 /\ c.resp.message = <<"Insufficient balance">>
          /\ ~c.saved /\ ~c.logged
          /\ ~c.overlap => StoreAsAtEntry(c)

C3_Witness ==
  \E r \in Slots :
    LET c == calls[r]
    IN /\ Done(c) /\ c.kind = "deductMoney"
       /\ c.resp.status = 400 /\ c.resp.message = <<"Insufficient balance">>
       /\ c.read = Num(1) /\ c.amount = Num(2)
       /\ UserBalance(accounts, c.user) = Num(1)
       /\ txlog = <<>>

\* C4: an addMoney or deductMoney whose amount is absent, zero or negative
\* ends at entry with 400 <<"Amount must be > 0">>: the accounts (no new one
\* among them) and the transaction log are as they were.
C4_InvalidAmountRejected ==
  \A r \in Slots :
    LET c == calls[r]
    IN (c.kind \in {"addMoney", "deductMoney"} /\ MissingZeroOrNegative(c.amount))
       => /\ Done(c)
          /\ c.resp.status = 400 /\ c.resp.message = <<"Amount must be > 0">>
          /\ ~c.saved /\ ~c.logged
          /\ StoreAsAtEntry(c)

C4_Witness ==
  \E r \in Slots :
    LET c == calls[r]
    IN /\ Done(c) /\ c.kind = "addMoney" /\ c.amount = Num(0 - 1)
       /\ c.resp.status = 400 /\ c.resp.message = <<"Amount must be > 0">>
       /\ AccountsOf(c.entry.accounts, c.user) = {}
       /\ AccountsOf(accounts, c.user) = {}

\* The amount is present and truthy and does not convert to a number.
NonNumeric(a) == Truthy(a) /\ ToNumber(a).t = "NaN"

\* C5: an addMoney or deductMoney on an existing account whose amount is
\* non-numeric replies 400 <<"Amount must be > 0">> and saves nothing (no
\* database call rejecting).
C5_NonNumericRejected ==
  \A r \in Slots :
    LET c == calls[r]
    IN (/\ Done(c) /\ c.kind \in {"addMoney", "deductMoney"}
        /\ NonNumeric(c.amount)
        /\ EntryBalance(c).t = "number"
        /\ ~c.dbError)
       => /\ c.resp.status = 400 /\ c.resp.message = <<"Amount must be > 0">>
          /\ ~c.saved

\* C6: a deductMoney with a positive numeric amount for a user who has no
\* account (nothing overlapping, no database call rejecting) replies 404 "No
\* account found"; no account has been added and no transaction appended.
C6_DebitWithoutAccount ==
  \A r \in Slots :
    LET c == calls[r]
    IN (/\ Done(c) /\ c.kind = "deductMoney"
        /\ PositiveNumeric(c.amount)
        /\ AccountsOf(c.entry.accounts, c.user) = {}
        /\ ~c.overlap /\ ~c.dbError)
       => /\ c.resp.status = 404 /\ c.resp.message = <<"No account found">>
          /\ ~c.saved /\ ~c.logged
          /\ StoreAsAtEntry(c)

C6_Witness ==
  \E r \in Slots :
    LET c == calls[r]
    IN /\ Done(c) /\ c.kind = "deductMoney" /\ c.amount = Num(1)
       /\ c.resp.status = 404
       /\ AccountsOf(c.entry.accounts, c.user) = {}
       /\ AccountsOf(accounts, c.user) = {}
       /\ txlog = <<>>

\* C7: an addMoney with a positive numeric amount a for a user who has no
\* account (nothing overlapping, no database call rejecting) replies 200 and
\* has added exactly one account, the user's only one, with balance a; the
\* log has gained the one record {credit, a, balanceAfter a} of that account
\* when its write succeeded, and nothing otherwise.
C7_FirstCreditCreatesAccount ==
  \A r \in Slots :
    LET c == calls[r]
        a == ToNumber(c.amount).v
        n == Len(accounts)
    IN (/\ Done(c) /\ c.kind = "addMoney"
        /\ PositiveNumeric(c.amount)
        /\ AccountsOf(c.entry.accounts, c.user) = {}
        /\ ~c.overlap /\ ~c.dbError)
       => /\ c.resp.status = 200
          /\ n = Len(c.entry.accounts) + 1
          /\ SubSeq(accounts, 1, n - 1) = c.entry.accounts
          /\ accounts[n].userId = c.user
          /\ accounts[n].balance = a
          /\ accounts[n].accountType = "savings" /\ accounts[n].status = "active"
          /\ AccountsOf(accounts, c.user) = {n}
          /\ txlog = IF c.logged
                     THEN Append(c.entry.txlog,
                                 [userId |-> c.user, accountId |-> n, type |-> "credit",
                                  amount |-> a, description |-> "Manual add money",
                                  status |-> "completed", balanceAfter |-> a])
                     ELSE c.entry.txlog

C7_Witness ==
  \E r \in Slots :
    LET c == calls[r]
    IN /\ Done(c) /\ c.kind = "addMoney" /\ c.amount = Num(2)
       /\ c.resp.status = 200 /\ c.logged /\ ~c.overlap
       /\ AccountsOf(c.entry.accounts, c.user) = {}
       /\ UserBalance(accounts, c.user) = Num(2)
       /\ Len(txlog) = 1 /\ txlog[1].type = "credit"
       /\ txlog[1].amount = 2 /\ txlog[1].balanceAfter = 2

\* C8: when an addMoney on an existing account replies 200 and the other
\* invocations that saved to the account meanwhile were credits, the balance
\* is its value at entry plus this amount plus the amounts of those credits.
C8_ConcurrentCreditsAddUp ==
  \A r \in Slots :
    LET c == calls[r]
    IN (/\ Done(c) /\ c.kind = "addMoney" /\ c.resp.status = 200
        /\ EntryBalance(c).t = "number"
        /\ c.othersDebited = 0)
       => UserBalance(accounts, c.user)
            = Num(EntryBalance(c).v + ToNumber(c.amount).v + c.othersCredited)

\* The records appended since c was entered that are debits of amount a by
\* c's user leaving balanceAfter b.
DebitsSince(c, a, b) ==
  {k \in (Len(c.entry.txlog) + 1)..Len(txlog) :
     /\ txlog[k].userId = c.user /\ txlog[k].type = "debit"
     /\ txlog[k].amount = a /\ txlog[k].balanceAfter = b}

\* Two debits of the same amount raced: c read the balance b it was entered
\* with, one other debit of c's amount was saved meanwhile, and both are
\* logged as having left b minus the amount, so both read b.
DebitsRaced(c) ==
  /\ Done(c) /\ c.kind = "deductMoney" /\ c.resp.status = 200
  /\ EntryBalance(c).t = "number" /\ c.read = EntryBalance(c)
  /\ c.othersCredited = 0
  /\ c.othersDebited = ToNumber(c.amount).v
  /\ Cardinality(DebitsSince(c, ToNumber(c.amount).v,
                             c.read.v - ToNumber(c.amount).v)) = 2

\* C9: whenever two debits of one amount a on one account have both read
\* the same balance b and both succeeded, the balance is b - a: one of the
\* two deltas is lost.
C9_RacingDebitsLoseOne ==
  \A r \in Slots :
    LET c == calls[r]
    IN DebitsRaced(c)
       => UserBalance(accounts, c.user) = Num(c.read.v - ToNumber(c.amount).v)

\* Such a race with a <= b < 2a.
C9_Witness ==
  \E r \in Slots :
    LET c == calls[r]
    IN /\ DebitsRaced(c)
       /\ c.amount = Num(1) /\ c.read = Num(1)
       /\ UserBalance(accounts, c.user) = Num(0)
       /\ Len(txlog) = 2

\* c found no account and has saved the one it constructed.
Created(c) ==
  /\ c.kind \in {"addMoney", "getBalance"}
  /\ c.saved /\ c.read = Undefined

\* C10: every invocation that found no account and saved has a record of its
\* own in the collection, added after it was entered; two of them for one
\* user have two different records, so the user has two accounts.
C10_EachFirstAccessInserts ==
  \A r \in Slots :
    LET c == calls[r]
    IN Created(c)
       => /\ c.doc.id \in AccountsOf(accounts, c.user)
          /\ c.doc.id > Len(c.entry.accounts)
          /\ \A s \in Slots \ {r} :
               (Created(calls[s]) /\ calls[s].user = c.user)
                 => /\ calls[s].doc.id # c.doc.id
                    /\ Cardinality(AccountsOf(accounts, c.user)) >= 2

\* Two first-time credits for a user without an account have both saved.
C10_Witness ==
  \E r \in Slots, s \in Slots :
    /\ r # s
    /\ Created(calls[r]) /\ calls[r].kind = "addMoney"
    /\ Created(calls[s]) /\ calls[s].kind = "addMoney"
    /\ calls[r].user = calls[s].user
    /\ Done(calls[r]) /\ calls[r].resp.status = 200
    /\ AccountsOf(calls[r].entry.accounts, calls[r].user) = {}
    /\ AccountsOf(calls[s].entry.accounts, calls[s].user) = {}
    /\ Cardinality(AccountsOf(accounts, calls[r].user)) = 2

\* A first-time credit and a first-time balance query have both saved.
C10_WitnessBalanceQuery ==
  \E r \in Slots, s \in Slots :
    /\ Created(calls[r]) /\ calls[r].kind = "addMoney"
    /\ Created(calls[s]) /\ calls[s].kind = "getBalance"
    /\ calls[r].user = calls[s].user
    /\ Done(calls[s]) /\ calls[s].resp.status = 200
    /\ AccountsOf(calls[r].entry.accounts, calls[r].user) = {}
    /\ AccountsOf(calls[s].entry.accounts, calls[s].user) = {}
    /\ Cardinality(AccountsOf(accounts, calls[r].user)) = 2

\* An addMoney or deductMoney frame.
Mutation(c) == c.kind \in {"addMoney", "deductMoney"}

\* C11: when Transaction.create of an addMoney or deductMoney rejects after
\* the save resolved, the step that ends the invocation replies 200 with the
\* account carrying the balance the save wrote, leaves the Account collection
\* as it is (nothing is rolled back) and leaves the log without a record of
\* the mutation.
C11_LogFailureSwallowed ==
  [][\A r \in Slots :
       (/\ Mutation(calls[r]) /\ calls[r].pc = "create"
        /\ Done(calls'[r]) /\ ~calls'[r].logged)
         => /\ calls[r].saved
            /\ calls'[r].resp.status = 200
            /\ calls'[r].resp.account.id = calls[r].doc.id
            /\ calls'[r].resp.account.balance = calls[r].wrote
            /\ accounts' = accounts
            /\ txlog' = txlog]_vars

C11_Witness ==
  \E r \in Slots :
    LET c == calls[r]
    IN /\ Done(c) /\ c.kind = "addMoney" /\ c.saved /\ ~c.logged
       /\ c.resp.status = 200 /\ c.resp.account.balance = Num(2)
       /\ UserBalance(accounts, c.user) = Num(2)
       /\ EntryBalance(c) = Num(1)
       /\ txlog = <<>>

\* C12: a getBalance that overlapped with no other invocation for the user,
\* none of whose database calls rejected, entered when the user had at most
\* one account, replies 200 with the user's account as the collection holds
\* it; the user then has exactly one account and the log is as it was. If the
\* account existed the collection is unchanged (the same account and balance
\* are returned again), otherwise one account with balance 0 has been
\* appended to it.
C12_BalanceQueryReturnsOrCreates ==
  \A r \in Slots :
    LET c == calls[r]
        old == c.entry.accounts
    IN (/\ Done(c) /\ c.kind = "getBalance"
        /\ ~c.overlap /\ ~c.dbError
        /\ Cardinality(AccountsOf(old, c.user)) <= 1)
       => /\ c.resp.status = 200
          /\ Cardinality(AccountsOf(accounts, c.user)) = 1
          /\ txlog = c.entry.txlog
          /\ c.resp.account = Load(accounts, FindOne(accounts, c.user))
          /\ IF FindOne(old, c.user) # 0
             THEN /\ accounts = old
                  /\ c.resp.account = Load(old, FindOne(old, c.user))
             ELSE /\ c.resp.account.balance = Num(0)
                  /\ c.resp.account.status = "active"
                  /\ accounts = Append(old, Stored(c.resp.account))

\* A second getBalance in a row returns the account the first one created.
C12_Witness ==
  \E r \in Slots :
    LET c == calls[r]
    IN /\ Done(c) /\ c.kind = "getBalance" /\ c.resp.status = 200
       /\ ~c.overlap /\ started = 2 /\ mutations = 0
       /\ FindOne(c.entry.accounts, c.user) # 0
       /\ c.resp.account.accountNumber = "CBI1"
       /\ c.resp.account.balance = Num(0)
       /\ Cardinality(AccountsOf(accounts, c.user)) = 1

\* The first getBalance of a user without an account creates it.
C12_WitnessCreated ==
  \E r \in Slots :
    LET c == calls[r]
    IN /\ Done(c) /\ c.kind = "getBalance" /\ c.resp.status = 200
       /\ ~c.overlap /\ c.saved
       /\ FindOne(c.entry.accounts, c.user) = 0
       /\ c.resp.account.balance = Num(0)

\* C13: an addMoney or deductMoney whose findOne or save rejected replies 500
\* "Server error"; it has saved nothing and appended no record to the log.
C13_PersistenceFailureIs500 ==
  \A r \in Slots :
    LET c == calls[r]
    IN (Done(c) /\ Mutation(c) /\ c.dbError)
       => /\ c.resp.status = 500 /\ c.resp.message = <<"Server error">>
          /\ ~c.saved /\ ~c.logged
          /\ (~c.overlap => txlog = c.entry.txlog)

\* The save of a deductMoney rejected.
C13_Witness ==
  \E r \in Slots :
    LET c == calls[r]
    IN /\ Done(c) /\ c.kind = "deductMoney" /\ c.dbError
       /\ c.read = Num(2) /\ c.doc.balance = Num(1)
       /\ c.resp.status = 500 /\ txlog = <<>>

\* The findOne of an addMoney rejected.
C13_WitnessRead ==
  \E r \in Slots :
    LET c == calls[r]
    IN /\ Done(c) /\ c.kind = "addMoney" /\ c.dbError
       /\ c.doc = NoDoc /\ c.amount = Num(1)
       /\ c.resp.status = 500 /\ txlog = <<>>

\* C14: an addMoney or deductMoney ends with 200 and its balance saved, or
\* with 400, 404 or 500 and nothing written: it has saved no account and
\* appended no record, and when no other invocation for the user overlapped
\* the Account collection and the log are exactly as they were at entry.
C14_FailureLeavesStoreUntouched ==
  \A r \in Slots :
    LET c == calls[r]
    IN (Done(c) /\ Mutation(c))
       => /\ c.resp.status \in {200, 400, 404, 500}
          /\ c.resp.status = 200 => c.saved
          /\ c.resp.status # 200
               => /\ ~c.saved /\ ~c.logged
                  /\ ~c.overlap => StoreAsAtEntry(c)

\* A debit refused for insufficient balance after an earlier credit.
C14_Witness ==
  \E r \in Slots :
    LET c == calls[r]
    IN /\ Done(c) /\ c.kind = "deductMoney" /\ ~c.overlap
       /\ c.resp.status = 400 /\ c.resp.message = <<"Insufficient balance">>
       /\ Len(txlog) = 1 /\ UserBalance(accounts, c.user) = Num(1)
       /\ StoreAsAtEntry(c)

\* An addMoney whose save rejected.
C14_WitnessServerError ==
  \E r \in Slots :
    LET c == calls[r]
    IN /\ Done(c) /\ c.kind = "addMoney" /\ ~c.overlap
       /\ c.resp.status = 500 /\ c.doc.balance = Num(2)
       /\ UserBalance(accounts, c.user) = Num(1)

\* C15: an invocation reads, then saves, then logs. A frame that waits for
\* findOne or save has neither saved nor logged, one that has logged has
\* saved; and every step that changes the log appends one record, on behalf
\* of an addMoney or deductMoney frame whose save has resolved, with the
\* balance that save wrote.
C15_ReadSaveThenLog ==
  [][/\ \A r \in Slots :
          /\ calls[r].pc \in {"findOne", "save"} => ~calls[r].saved /\ ~calls[r].logged
          /\ calls[r].pc = "create" => calls[r].saved /\ ~calls[r].logged
          /\ calls[r].logged => calls[r].saved
     /\ txlog' # txlog
          => \E r \in Slots :
               /\ Mutation(calls[r]) /\ calls[r].pc = "create"
               /\ calls[r].doc.userId = calls[r].user /\ calls[r].saved
               /\ calls'[r].logged
               /\ Len(txlog') = Len(txlog) + 1
               /\ SubSeq(txlog', 1, Len(txlog)) = txlog
               /\ txlog'[Len(txlog')].balanceAfter = calls[r].wrote.v
               /\ txlog'[Len(txlog')].userId = calls[r].user]_vars

C15_Witness ==
  \E r \in Slots :
    LET c == calls[r]
    IN /\ Done(c) /\ c.kind = "deductMoney" /\ c.saved /\ c.logged
       /\ c.read = Num(2) /\ c.wrote = Num(1)
       /\ Len(txlog) = 1 /\ txlog[1].balanceAfter = 1
       /\ UserBalance(accounts, c.user) = Num(1)

\* C16: the log never holds more records than there were resolved saves of
\* addMoney and deductMoney, counting one for each invocation still ahead of
\* its Transaction.create. A finished invocation that was a getBalance, or
\* that replied anything but 200, appended none; a successful one that no
\* invocation overlapped left the log one record longer if its create
\* resolved and unchanged if it rejected.
C16_AtMostOneRecordPerMutation ==
  /\ Len(txlog) + Cardinality({r \in Slots : calls[r].pc = "create"}) <= mutations
  /\ \A r \in Slots :
       LET c == calls[r]
       IN Done(c)
          => /\ (c.kind = "getBalance" \/ c.resp.status # 200)
                  => /\ ~c.logged
                     /\ ~c.overlap => txlog = c.entry.txlog
             /\ (Mutation(c) /\ c.resp.status = 200 /\ ~c.overlap)
                  => Len(txlog) = Len(c.entry.txlog) + (IF c.logged THEN 1 ELSE 0)

\* Two mutations were saved, the create of the first one rejected.
C16_Witness ==
  \E r \in Slots :
    LET c == calls[r]
    IN /\ Done(c) /\ Mutation(c) /\ c.resp.status = 200 /\ c.logged
       /\ mutations = 2 /\ Len(txlog) = 1

\* Two mutations were saved and both were logged.
C16_WitnessBothLogged ==
  \E r \in Slots :
    LET c == calls[r]
    IN /\ Done(c) /\ c.kind = "deductMoney" /\ c.resp.status = 200 /\ c.logged
       /\ mutations = 2 /\ Len(txlog) = 2 /\ txlog[1].type = "credit"

\* The balance the handler computed from: the one findOne returned, 0 for
\* the account addMoney constructs.
BalanceRead(c) == IF c.read.t = "number" THEN c.read.v ELSE 0

\* C17: every record of the log is completed, a credit or a debit, of a
\* positive amount; and the record an invocation has just appended is a
\* credit for addMoney and a debit for deductMoney, of the amount requested,
\* owned by the caller, for the account returned, with balanceAfter the
\* balance the invocation's save wrote: the balance read plus, or minus,
\* the amount.
C17_RecordDescribesMutation ==
  /\ \A k \in 1..Len(txlog) :
       /\ txlog[k].status = "completed"
       /\ txlog[k].type \in {"credit", "debit"}
       /\ txlog[k].amount > 0
       /\ txlog[k].userId \in Callers
  /\ \A r \in Slots :
       LET c == calls[r]
           t == txlog[Len(txlog)]
       IN (Done(c) /\ c.logged)
          => /\ t.status = "completed"
             /\ t.type = (IF c.kind = "addMoney" THEN "credit" ELSE "debit")
             /\ Num(t.amount) = ToNumber(c.amount) /\ t.amount > 0
             /\ t.userId = c.user
             /\ t.accountId = c.resp.account.id
             /\ Num(t.balanceAfter) = c.wrote
             /\ t.balanceAfter = (IF c.kind = "addMoney"
                                  THEN BalanceRead(c) + t.amount
                                  ELSE BalanceRead(c) - t.amount)

\* A credit of "1" on a balance of 1.
C17_Witness ==
  \E r \in Slots :
    LET c == calls[r]
    IN /\ Done(c) /\ c.kind = "addMoney" /\ c.logged
       /\ c.amount = Str(<<"1">>) /\ c.read = Num(1)
       /\ txlog[Len(txlog)].amount = 1 /\ txlog[Len(txlog)].balanceAfter = 2
       /\ txlog[Len(txlog)].type = "credit"

\* A debit of 1 on a balance of 2.
C17_WitnessDebit ==
  \E r \in Slots :
    LET c == calls[r]
    IN /\ Done(c) /\ c.kind = "deductMoney" /\ c.logged
       /\ c.amount = Num(1) /\ c.read = Num(2)
       /\ txlog[Len(txlog)].type = "debit" /\ txlog[Len(txlog)].balanceAfter = 1

\* The text of a confirmation message in front of its last token.
Front(m) == SubSeq(m, 1, Len(m) - 1)

\* C20: an addMoney or deductMoney that replies 200 returns the account with
\* the balance its save wrote (which is the stored balance when no other
\* invocation for the user overlapped), and its message is the requested
\* amount followed by " added successfully" or " deducted successfully".
C20_SuccessReply ==
  \A r \in Slots :
    LET c == calls[r]
        m == c.resp.message
    IN (Done(c) /\ Mutation(c) /\ c.resp.status = 200)
       => /\ c.resp.account.userId = c.user
          /\ c.resp.account.balance = c.wrote
          /\ ~c.overlap
               => Stored(c.resp.account) = accounts[c.resp.account.id]
          /\ Len(m) >= 2
          /\ m[Len(m)] = (IF c.kind = "addMoney" THEN " added successfully"
                          ELSE " deducted successfully")
          /\ StringToNumber(Front(m)) = ToNumber(c.amount)
          /\ Front(m) = (IF c.amount.t = "string" THEN c.amount.s
                         ELSE NatToString(c.amount.v))

C20_Witness ==
  \E r \in Slots :
    LET c == calls[r]
    IN /\ Done(c) /\ c.kind = "addMoney" /\ c.resp.status = 200
       /\ c.read = Num(1) /\ c.amount = Num(1)
       /\ c.resp.message = <<"1", " added successfully">>
       /\ c.resp.account.balance = Num(2)
       /\ UserBalance(accounts, c.user) = Num(2)

C20_WitnessDebit ==
  \E r \in Slots :
    LET c == calls[r]
    IN /\ Done(c) /\ c.kind = "deductMoney" /\ c.resp.status = 200
       /\ c.read = Num(2) /\ c.amount = Str(<<"1">>)
       /\ c.resp.message = <<"1", " deducted successfully">>
       /\ c.resp.account.balance = Num(1)

\* C18: no step of addMoney, deductMoney, getBalance, register or login
\* changes or removes a record of the log: after every step the log is the
\* log before it, with records appended at most.
C18_LogAppendOnly ==
  [][/\ Len(txlog') >= Len(txlog)
     /\ SubSeq(txlog', 1, Len(txlog)) = txlog]_vars

\* A register has gone through after a credit was logged.
C18_Witness ==
  /\ auth.pc = "done" /\ auth.kind = "register" /\ auth.resp.status = 201
  /\ Len(txlog) = 1 /\ txlog[1].type = "credit"
  /\ auth.entry.txlog = txlog

\* A debit was logged after a credit.
C18_WitnessTwoRecords ==
  /\ Len(txlog) = 2 /\ txlog[1].type = "credit" /\ txlog[2].type = "debit"
  /\ \E r \in Slots : Done(calls[r]) /\ calls[r].logged

\* C19: no step of register, login, getBalance, addMoney or deductMoney
\* removes an account: after every step each account is where it was, with
\* its owner, number, type and status as before; a balance is all that
\* changes, and accounts are added at the end.
C19_AccountsKept ==
  [][/\ Len(accounts') >= Len(accounts)
     /\ \A i \in 1..Len(accounts) :
          /\ accounts'[i].userId = accounts[i].userId
          /\ accounts'[i].accountNumber = accounts[i].accountNumber
          /\ accounts'[i].accountType = accounts[i].accountType
          /\ accounts'[i].status = accounts[i].status]_vars

\* A user has registered and alice's balance has changed.
C19_Witness ==
  /\ Len(accounts) = 3 /\ mutations = 1
  /\ accounts[2].userId = "alice" /\ accounts[2].accountNumber = "CBI0"
  /\ accounts[2].balance = 2
  /\ accounts[3].userId = "carol" /\ accounts[3].balance = INITIAL_BALANCE
  /\ \E r \in Slots : Done(calls[r]) /\ calls[r].kind = "addMoney" /\ calls[r].read = Num(1)

\* The frame d is the invocation c at a later point; a response once set
\* stays as it is.
SameCall(c, d) ==
  /\ d.pc # "idle"
  /\ d.kind = c.kind /\ d.user = c.user /\ d.amount = c.amount /\ d.entry = c.entry
  /\ Done(c) => d = c

\* C21: when every awaited database call returns or throws, each addMoney,
\* deductMoney and getBalance invocation runs to its end with one response.
\* An invocation stays in flight (in its slot, or the one below when an
\* earlier response has left) until it leaves with a response whose status
\* is set, that response is never replaced by another, and again and again
\* no invocation is left in flight.
C21_OneResponseEach ==
  /\ [][\A r \in Slots :
          calls[r].pc # "idle"
            => \/ SameCall(calls[r], calls'[r])
               \/ /\ r - 1 \in Slots /\ Done(calls[r - 1])
                  /\ SameCall(calls[r], calls'[r - 1])
               \/ /\ Done(calls[r]) /\ calls[r].resp.status \in {200, 400, 404, 500}
                  /\ calls'[r] = (IF r + 1 \in Slots THEN calls[r + 1] ELSE IdleCall)]_vars
  /\ []<>(\A r \in Slots : calls[r].pc = "idle")

\* The second of two invocations answers after a log write that failed.
C21_Witness ==
  \E r \in Slots :
    LET c == calls[r]
    IN /\ Done(c) /\ c.kind = "deductMoney" /\ c.saved /\ ~c.logged
       /\ c.resp.status = 200 /\ started = 2
       /\ \A s \in Slots \ {r} : calls[s].pc = "idle"

\* C22: the accounts start with balances of 0 or more, and in every
\* reachable state, however addMoney, deductMoney and getBalance
\* invocations interleave, every stored balance is 0 or more.
C22_BalancesNonNegative ==
  \A i \in 1..Len(accounts) : accounts[i].balance >= 0

\* Two debits of 2 that both read a balance of 2 have both been saved.
C22_Witness ==
  \E r \in Slots :
    LET c == calls[r]
    IN /\ Done(c) /\ c.kind = "deductMoney" /\ c.resp.status = 200
       /\ c.read = Num(2) /\ c.amount = Num(2) /\ c.othersDebited = 2
       /\ UserBalance(accounts, c.user) = Num(0)

\* The amounts of the credit records of account id less those of its debit
\* records.
RECURSIVE Ledger(_, _)
Ledger(log, id) ==
  IF log = <<>> THEN 0
  ELSE LET t == log[Len(log)]
           rest == Ledger(SubSeq(log, 1, Len(log) - 1), id)
       IN IF t.accountId # id THEN rest
          ELSE IF t.type = "credit" THEN rest + t.amount ELSE rest - t.amount

\* The records of account id.
RecordsOf(log, id) == {k \in 1..Len(log) : log[k].accountId = id}

\* The user's account and the log agree: the balance is what the records of
\* the account add up to and the balanceAfter of the latest of them; a user
\* without an account has no record.
Balanced(accts, log, u) ==
  LET i == FindOne(accts, u)
  IN IF i = 0 THEN \A k \in 1..Len(log) : log[k].userId # u
     ELSE /\ accts[i].balance = Ledger(log, i)
          /\ RecordsOf(log, i) # {}
               => log[CHOOSE k \in RecordsOf(log, i) :
                        \A j \in RecordsOf(log, i) : j <= k].balanceAfter = accts[i].balance

\* C23: an account that starts at 0 with no record agrees with the log, and
\* every invocation that overlapped with no other one for the user and whose
\* log write did not fail keeps that: if the account and the log agreed when
\* it was entered they agree when it replies, so after each such call the
\* balance is the credits less the debits and the balanceAfter of the latest
\* record.
C23_BalanceMatchesLog ==
  \A r \in Slots :
    LET c == calls[r]
    IN (/\ Done(c) /\ ~c.overlap
        /\ (Mutation(c) /\ c.saved) => c.logged
        /\ Cardinality(AccountsOf(c.entry.accounts, c.user)) <= 1
        /\ Balanced(c.entry.accounts, c.entry.txlog, c.user))
       => /\ Balanced(accounts, txlog, c.user)
          /\ (c.saved /\ FindOne(c.entry.accounts, c.user) = 0 /\ ~Mutation(c))
               => UserBalance(accounts, c.user) = Num(0)

\* An account created by a credit of 2, then debited by 1.
C23_Witness ==
  \E r \in Slots :
    LET c == calls[r]
    IN /\ Done(c) /\ c.kind = "deductMoney" /\ ~c.overlap /\ c.logged
       /\ started = 2 /\ Len(txlog) = 2
       /\ txlog[1].type = "credit" /\ txlog[1].amount = 2
       /\ txlog[2].type = "debit" /\ txlog[2].amount = 1 /\ txlog[2].balanceAfter = 1
       /\ c.resp.account.accountNumber # "CBI0"
       /\ UserBalance(accounts, c.user) = Num(1)
       /\ Balanced(accounts, txlog, c.user)

\* C24: a step writes an account only on behalf of an invocation of the
\* account's owner that holds the owner's document and waits for its save,
\* so the accounts of every other user stay as they are; and a request is
\* taken in the same way whatever accountNumber its body carries: a step
\* that enters a handler for a body is the step that enters it for the body
\* without the accountNumber, leaving the same frames and collections.
C24_OwnAccountOnly ==
  [][/\ Len(accounts') >= Len(accounts)
     /\ \A i \in 1..Len(accounts') :
          (i > Len(accounts) \/ accounts'[i] # accounts[i])
            => \E r \in Slots :
                 /\ calls[r].pc = "save"
                 /\ calls[r].user = accounts'[i].userId
                 /\ calls[r].doc.userId = calls[r].user
     /\ started' # started
          => \A r \in Slots, u \in Users, b \in Bodies :
               LET plain == [b EXCEPT !.accountNumber = "none"]
               IN /\ AddMoneyRequest(r, u, b) <=> AddMoneyRequest(r, u, plain)
                  /\ DeductMoneyRequest(r, u, b) <=> DeductMoneyRequest(r, u, plain)]_vars

\* alice's credit has gone through after bob's; bob's account is as bob
\* left it.
C24_Witness ==
  \E r \in Slots :
    LET c == calls[r]
    IN /\ Done(c) /\ c.user = "alice" /\ c.kind = "addMoney" /\ c.resp.status = 200
       /\ c.read = Num(1) /\ c.amount = Num(1)
       /\ UserBalance(c.entry.accounts, "bob") = Num(MaxInitBalance + 1)
       /\ UserBalance(accounts, "bob") = Num(MaxInitBalance + 1)
       /\ UserBalance(accounts, "alice") = Num(2)
       /\ c.resp.account.accountNumber = "CBI0"

\* The handler replied before it looked an account up.
RepliedBeforeLookup(c) ==
  /\ c.doc = NoDoc /\ c.read = Undefined /\ ~c.saved /\ ~c.dbError

\* C25: the amount is checked before the account: an addMoney or
\* deductMoney whose amount is missing, zero, negative or no number replies
\* 400 "Amount must be > 0" without having looked an account up, also for a
\* user who has no account.
C25_AmountCheckedFirst ==
  \A r \in Slots :
    LET c == calls[r]
    IN (/\ Done(c) /\ Mutation(c)
        /\ MissingZeroOrNegative(c.amount) \/ NonNumeric(c.amount))
       => /\ c.resp.status = 400 /\ c.resp.message = <<"Amount must be > 0">>
          /\ RepliedBeforeLookup(c)

\* The order of the checks for the amounts the handlers refuse: 400 before
\* any lookup whether or not the user has an account, then 404 for a debit
\* without account, then 400 "Insufficient balance".
C25_OrderForRefusedAmounts ==
  \A r \in Slots :
    LET c == calls[r]
    IN (Done(c) /\ Mutation(c))
       => /\ MissingZeroOrNegative(c.amount)
               => /\ c.resp.status = 400
                  /\ c.resp.message = <<"Amount must be > 0">>
                  /\ RepliedBeforeLookup(c)
          /\ c.resp.status = 404
               => ~InvalidAmount(c.amount) /\ c.kind = "deductMoney"
          /\ c.resp.message = <<"Insufficient balance">>
               => ~InvalidAmount(c.amount) /\ c.read.t = "number"

\* A debit without amount for a user without an account is refused for
\* the amount.
C25_WitnessNoAccount ==
  \E r \in Slots :
    LET c == calls[r]
    IN /\ Done(c) /\ c.kind = "deductMoney" /\ c.amount = Undefined
       /\ FindOne(accounts, c.user) = 0
       /\ c.resp.status = 400 /\ c.resp.message = <<"Amount must be > 0">>
(***************************************************************************)
(* C26: a register call that replies 201 has persisted exactly one new     *)
(* user and exactly one account owned by that user, with the configured    *)
(* initial balance and status active, and the balance of the response is   *)
(* the persisted one; a deductMoney sent by that user with the token of    *)
(* the 201 is never answered with 404 "No account found".                  *)
(***************************************************************************)
C26_RegisteredHasAccount ==
  /\ (auth.pc = "done" /\ auth.kind = "register" /\ auth.resp.status = 201)
       => /\ Len(users) = Len(auth.entry.users) + 1
          /\ SubSeq(users, 1, Len(auth.entry.users)) = auth.entry.users
          /\ users[Len(users)].id = auth.resp.user.id
          /\ \A i \in 1..Len(auth.entry.users) : users[i].id # auth.resp.user.id
          /\ Len(accounts) = Len(auth.entry.accounts) + 1
          /\ AccountsOf(accounts, auth.resp.user.id) = {Len(accounts)}
          /\ accounts[Len(accounts)].balance = INITIAL_BALANCE
          /\ accounts[Len(accounts)].status = "active"
          /\ auth.resp.user.balance = Num(accounts[Len(accounts)].balance)
          /\ auth.resp.token = Token(auth.resp.user.id)
  /\ \A r \in Slots :
       (Done(calls[r]) /\ calls[r].kind = "deductMoney" /\ ~calls[r].dbError)
         => /\ calls[r].resp.status # 404
            /\ PositiveNumeric(calls[r].amount) => calls[r].resp.status = 200

\* The registered user's debit of 1 has been answered with 200 and the
\* account holds the initial balance less 1.
C26_Witness ==
  \E r \in Slots :
    /\ Done(calls[r]) /\ calls[r].kind = "deductMoney" /\ calls[r].user = "carol"
    /\ calls[r].resp.status = 200
    /\ \E i \in AccountsOf(accounts, "carol") : accounts[i].balance = INITIAL_BALANCE - 1

\* A register call has just replied 201.
C26_WitnessRegistered ==
  /\ auth.pc = "done" /\ auth.kind = "register" /\ auth.resp.status = 201
  /\ Len(users) = Len(InitialUsers) + 1

(***************************************************************************)
(* C27: registration is all-or-nothing: a register call that ends with an  *)
(* error response (400, 409 or 500) has persisted neither a user nor an    *)
(* account, so every user persisted by a finished registration has an      *)
(* account.                                                                *)
(***************************************************************************)
C27_AllOrNothing ==
  /\ (auth.pc = "done" /\ auth.kind = "register" /\ auth.resp.status \in {400, 409, 500})
       => /\ users = auth.entry.users
          /\ ~auth.savedUser /\ ~auth.savedAccount
  /\ (auth.kind # "register" \/ auth.pc = "done")
       => \A i \in (Len(InitialUsers) + 1)..Len(users) : AccountsOf(accounts, users[i].id) # {}

\* What does hold: an error response before user.save() resolved leaves the
\* users and the accounts alone, and no error response follows a saved
\* account.
C27_NothingBeforeUserSaved ==
  (auth.pc = "done" /\ auth.kind = "register" /\ auth.resp.status \in {400, 409, 500})
    => /\ ~auth.savedAccount
       /\ AccountsOf(accounts, auth.user.id) = {}
       /\ ~auth.savedUser => users = auth.entry.users
       /\ auth.resp.status \in {400, 409} => ~auth.savedUser

\* account.save() rejected after user.save() resolved: the reply is 500 and
\* the user is persisted without an account.
C27_WitnessOrphan ==
  /\ auth.pc = "done" /\ auth.kind = "register" /\ auth.resp.status = 500
  /\ auth.savedUser /\ ~auth.savedAccount
  /\ users # auth.entry.users
  /\ AccountsOf(accounts, users[Len(users)].id) = {}

(***************************************************************************)
(* C28: a register call whose email, trimmed, equals the email of an       *)
(* existing user when letter case is ignored is rejected with 409 and      *)
(* creates no user and no account; register calls that do not overlap      *)
(* never leave two users whose emails are equal ignoring case.             *)
(***************************************************************************)
\* The request's email, trimmed, is the email of one of the users us when
\* letter case is ignored.
EmailTaken(us, b) ==
  /\ b.email.t = "string"
  /\ \E i \in 1..Len(us) : ToLowerCase(us[i].email) = ToLowerCase(Trim(b.email.s))

C28_DuplicateEmailRejected ==
  /\ (/\ auth.kind = "register"
      /\ Truthy(auth.body.name) /\ Truthy(auth.body.email) /\ Truthy(auth.body.password)
      /\ EmailTaken(auth.entry.users, auth.body))
       => /\ auth.pc \in {"findOne", "done"}
          /\ users = auth.entry.users
          /\ Len(accounts) = Len(auth.entry.accounts)
          /\ ~auth.savedUser /\ ~auth.savedAccount
          /\ (auth.pc = "done" /\ ~auth.dbError)
               => /\ auth.resp.status = 409
                  /\ auth.resp.message = <<"Email already registered">>
                  /\ auth.resp.token = NoToken
  /\ \A i, j \in 1..Len(users) :
       i # j => ToLowerCase(users[i].email) # ToLowerCase(users[j].email)

\* " c@" is refused with 409 after "C@" was registered by an earlier call.
C28_Witness ==
  /\ auth.pc = "done" /\ auth.kind = "register" /\ auth.resp.status = 409
  /\ auth.body.email = Str(<<" ", "c", "@">>)
  /\ Len(users) = Len(InitialUsers) + 1
  /\ users[Len(users)].email = <<"c", "@">>

\* "A@" is refused with 409: "a@" is the email of a user who was there
\* before.
C28_WitnessInitialUser ==
  /\ auth.pc = "done" /\ auth.kind = "register" /\ auth.resp.status = 409
  /\ auth.body.email = Str(<<"A", "@">>)

(***************************************************************************)
(* C29: login never changes the users, the accounts or the transaction     *)
(* log, on any of its paths, and its response carries a token only when a  *)
(* user matches the identifier and the password is that user's: a missing  *)
(* password is answered 400, an unknown user 400, a wrong password 401,    *)
(* each without a token.                                                   *)
(***************************************************************************)
\* The users the request identifies: by identifier (as an email when it
\* holds an '@', or as a phone), else by email, else by phone.
Identified(us, b) ==
  {i \in 1..Len(us) :
     IF Truthy(b.identifier)
     THEN \/ /\ Includes(b.identifier.s, "@")
             /\ ToLowerCase(us[i].email) = ToLowerCase(Trim(b.identifier.s))
          \/ us[i].phone = b.identifier.s
     ELSE IF Truthy(b.email)
     THEN ToLowerCase(us[i].email) = ToLowerCase(Trim(b.email.s))
     ELSE Truthy(b.phone) /\ us[i].phone = b.phone.s}

LoginAnswered ==
  LET b == auth.body
      found == Identified(users, b)
      right == {i \in found : users[i].password = Hash(b.password.s)}
  IN (auth.pc = "done" /\ auth.kind = "login")
       => /\ auth.resp.token # NoToken
               => /\ auth.resp.status = 200
                  /\ Truthy(b.password)
                  /\ \E i \in right : auth.resp.token = Token(users[i].id)
          /\ auth.resp.status # 200 => auth.resp.token = NoToken
          /\ ~Truthy(b.password)
               => /\ auth.resp.status = 400
                  /\ auth.resp.message = <<"Password is required.">>
          /\ (Truthy(b.password) /\ found = {} /\ ~auth.dbError)
               => auth.resp.status = 400
          /\ (Truthy(b.password) /\ found # {} /\ right = {} /\ ~auth.dbError)
               => /\ auth.resp.status = 401
                  /\ auth.resp.message = <<"Invalid credentials">>

C29_LoginReadsOnly ==
  /\ [][(auth' # auth /\ (auth.kind = "login" \/ auth'.kind = "login"))
          => UNCHANGED <<users, accounts, txlog>>]_vars
  /\ []LoginAnswered

\* A login with alice's email in capitals and her password is answered 200
\* with her token.
C29_Witness ==
  /\ auth.pc = "done" /\ auth.kind = "login" /\ auth.resp.status = 200
  /\ auth.body.identifier = Str(<<"A", "@">>)
  /\ auth.resp.token = Token("alice")

\* A wrong password is answered 401.
C29_WitnessWrongPassword ==
  /\ auth.pc = "done" /\ auth.kind = "login" /\ auth.resp.status = 401
  /\ auth.body.password = Str(<<"q">>)

\* An unknown phone is answered 400 "User not found".
C29_WitnessUnknownUser ==
  /\ auth.pc = "done" /\ auth.kind = "login" /\ auth.resp.status = 400
  /\ auth.resp.message = <<"User not found">>

\* A missing password is answered 400.
C29_WitnessNoPassword ==
  /\ auth.pc = "done" /\ auth.kind = "login" /\ auth.resp.status = 400
  /\ auth.body.password = Undefined

(***************************************************************************)
(* C30: the Accounts and AccountsDeduct pages send an add or deduct        *)
(* request only with an amount that is a number greater than 0 and after   *)
(* a successful getBalance has loaded the account, which therefore exists  *)
(* when the request arrives; a deduct request sent by these pages is never *)
(* answered with 404 "No account found".                                   *)
(***************************************************************************)
C30_PagesSendWithAccount ==
  /\ \A r \in Slots :
       LET c == calls[r]
           i == FindOne(c.entry.accounts, c.user)
       IN c.kind \in {"addMoney", "deductMoney"}
            => /\ c.amount.t = "number" /\ c.amount.v > 0
               /\ page.account # NoDoc
               /\ c.user = page.user
               /\ i # 0
               /\ c.entry.accounts[i].accountNumber = page.account.accountNumber
               /\ (Done(c) /\ c.kind = "deductMoney") => c.resp.status # 404
  /\ page.account # NoDoc
       => \E i \in AccountsOf(accounts, page.user) :
            accounts[i].accountNumber = page.account.accountNumber

\* AccountsDeduct: the account was created by the page's getBalance, and the
\* debit of 1 has been answered "Insufficient balance".
C30_Witness ==
  \E r \in Slots :
    /\ page.name = "AccountsDeduct"
    /\ Done(calls[r]) /\ calls[r].kind = "deductMoney"
    /\ calls[r].entry.accounts # <<>>
    /\ calls[r].resp.message = <<"Insufficient balance">>
    /\ page.account.balance = Num(0)

\* Accounts in deduct mode: a debit has been answered 200.
C30_WitnessAccounts ==
  \E r \in Slots :
    /\ page.name = "Accounts" /\ ~page.isAddMode
    /\ Done(calls[r]) /\ calls[r].kind = "deductMoney" /\ calls[r].resp.status = 200

====
